---- MODULE Spec2Model ----
(***************************************************************************)
(* simple-note: the time-range filter resolver parse_timefilter of         *)
(* src/bin/simple_note.py (duplicated verbatim in src/bin/main.py).        *)
(*                                                                         *)
(* A Python str is a sequence of one-character strings, so that strip,     *)
(* split, the regular expressions and eval act on text as the code does.   *)
(* A datetime is a record [year, month, day, hour, minute, second].        *)
(***************************************************************************)
EXTENDS Integers, Sequences, FiniteSets, TLC

(***************************************************************************)
(* Text helpers: Python str operations used by parse_timefilter.           *)
(***************************************************************************)

\* The whitespace of the modelled queries is U+0020 only (Python's \s and
\* str.strip also cover tab and newline, which no modelled query contains).
IsSpace(c) == c = " "

DigitChars == <<"0", "1", "2", "3", "4", "5", "6", "7", "8", "9">>

DigitSet == {DigitChars[d] : d \in 1..10}

IsDigit(c) == c \in DigitSet

DigitVal(c) == (CHOOSE d \in 1..10 : DigitChars[d] = c) - 1

LowerChars == <<"a", "b", "c", "d", "e", "f", "g", "h", "i", "j", "k", "l", "m",
                "n", "o", "p", "q", "r", "s", "t", "u", "v", "w", "x", "y", "z">>

UpperChars == <<"A", "B", "C", "D", "E", "F", "G", "H", "I", "J", "K", "L", "M",
                "N", "O", "P", "Q", "R", "S", "T", "U", "V", "W", "X", "Y", "Z">>

LetterSet == {LowerChars[d] : d \in 1..26} \cup {UpperChars[d] : d \in 1..26}

IsLetter(c) == c \in LetterSet

\* Python identifier characters
IsNameStart(c) == IsLetter(c) \/ c = "_"

IsNameChar(c) == IsNameStart(c) \/ IsDigit(c)

\* s[i..j] (1-based, inclusive); empty when j < i
Slice(s, i, j) == SubSeq(s, i, j)

\* s[i:]  (1-based i)
From(s, i) == SubSeq(s, i, Len(s))

\* str.startswith at 1-based position i
StartsAt(s, i, t) == i + Len(t) - 1 <= Len(s) /\ SubSeq(s, i, i + Len(t) - 1) = t

\* the 1-based index of the first character at or after i that is no space
RECURSIVE SkipSpaces(_, _)
SkipSpaces(s, i) == IF i <= Len(s) /\ IsSpace(s[i]) THEN SkipSpaces(s, i + 1) ELSE i

\* the 1-based index of the last character at or before j that is no space
RECURSIVE SkipSpacesBack(_, _)
SkipSpacesBack(s, j) == IF j >= 1 /\ IsSpace(s[j]) THEN SkipSpacesBack(s, j - 1) ELSE j

\* (mutation of strip: only the leading whitespace is removed)
strip_leading_only(s) == SubSeq(s, SkipSpaces(s, 1), Len(s))

\* str.strip()
strip(s) == SubSeq(s, SkipSpaces(s, 1), SkipSpacesBack(s, Len(s)))

\* the index of the first occurrence of sep in s at or after i, 0 for none
FirstMatch(s, sep, i) ==
    IF \E j \in i..Len(s) : StartsAt(s, j, sep)
    THEN CHOOSE j \in i..Len(s) : StartsAt(s, j, sep) /\ \A k \in i..(j - 1) : ~StartsAt(s, k, sep)
    ELSE 0

\* the parts of s from i on, given the first occurrence j of sep
RECURSIVE SplitFrom(_, _, _, _)
SplitAt(s, sep, i, cur, j) ==
    IF j = 0 THEN <<cur \o SubSeq(s, i, Len(s))>>
    ELSE <<cur \o SubSeq(s, i, j - 1)>> \o SplitFrom(s, sep, j + Len(sep), <<>>)

\* str.split(sep): the parts between the non-overlapping occurrences of sep,
\* scanned left to right; cur is the part being collected
SplitFrom(s, sep, i, cur) == CHOOSE parts \in {SplitAt(s, sep, i, cur, j) : j \in {FirstMatch(s, sep, i)}} : TRUE

\* (mutation of split: str.split(sep, 1), at most one split is made)
split_maxsplit_1(s, sep) ==
    LET parts == SplitFrom(s, sep, 1, <<>>)
    IN  IF Len(parts) <= 2 THEN parts
        ELSE <<parts[1], From(s, Len(parts[1]) + Len(sep) + 1)>>

split(s, sep) == SplitFrom(s, sep, 1, <<>>)

\* `c in s` for a one-character c
Contains(s, c) == \E i \in 1..Len(s) : s[i] = c

\* str.replace(c, t) for a one-character c: every occurrence is replaced
RECURSIVE replace(_, _, _)
replace(s, c, t) ==
    IF s = <<>> THEN <<>>
    ELSE (IF Head(s) = c THEN t ELSE <<Head(s)>>) \o replace(Tail(s), c, t)

\* str.isnumeric() on the modelled alphabet: non-empty and digits only
isnumeric(s) == s # <<>> /\ \A i \in 1..Len(s) : IsDigit(s[i])

\* str(n) for an int n
RECURSIVE StrNat(_)
StrNat(n) == IF n < 10 THEN <<DigitChars[n + 1]>>
             ELSE Append(StrNat(n \div 10), DigitChars[(n % 10) + 1])

str(n) == IF n < 0 THEN <<"-">> \o StrNat(0 - n) ELSE StrNat(n)

\* ' '.join(parts)
RECURSIVE join(_)
join(parts) ==
    IF Len(parts) = 0 THEN <<>>
    ELSE IF Len(parts) = 1 THEN parts[1]
    ELSE parts[1] \o <<" ">> \o join(Tail(parts))


(***************************************************************************)
(* The three regular expressions of parse_timefilter.                      *)
(***************************************************************************)

RANGE == <<"r", "a", "n", "g", "e">>

\* A match of '\s*range\s*=\s*' starting at i: the index just after the match,
\* or 0 when the pattern does not match at i.
MatchRangeAt(s, i) ==
    LET j == SkipSpaces(s, i)
        e == SkipSpaces(s, j + Len(RANGE))
    IN  IF StartsAt(s, j, RANGE) /\ e <= Len(s) /\ s[e] = "="
        THEN SkipSpaces(s, e + 1)
        ELSE 0

\* the index where the first match of '\s*range\s*=\s*' at or after i starts,
\* 0 for none
FirstRange(s, i) ==
    IF \E j \in i..Len(s) : MatchRangeAt(s, j) # 0
    THEN CHOOSE j \in i..Len(s) : MatchRangeAt(s, j) # 0 /\ \A k \in i..(j - 1) : MatchRangeAt(s, k) = 0
    ELSE 0

\* s from i on without the matches, given where the first match starts
RECURSIVE ReSubRange(_, _)
ReSubAt(s, i, j) ==
    IF j = 0 THEN SubSeq(s, i, Len(s))
    ELSE SubSeq(s, i, j - 1) \o ReSubRange(s, MatchRangeAt(s, j))

\* re.sub('\s*range\s*=\s*', '', s): every leftmost non-overlapping match is
\* removed
ReSubRange(s, i) == CHOOSE t \in {ReSubAt(s, i, j) : j \in {FirstRange(s, i)}} : TRUE

\* the character class [\-,\+] of the operand and operator patterns: it holds
\* the comma too
IsOpChar(c) == c \in {"-", ",", "+"}

\* any([sign in s for sign in ['+', '-']])
HasSign(s) == Contains(s, "+") \/ Contains(s, "-")

FirstOp(s) == CHOOSE i \in 1..Len(s) : IsOpChar(s[i]) /\ \A j \in 1..(i - 1) : ~IsOpChar(s[j])

LastOp(s) == CHOOSE i \in 1..Len(s) : IsOpChar(s[i]) /\ \A j \in (i + 1)..Len(s) : ~IsOpChar(s[j])

\* re.search('.*(?=[\-,\+])', s).group(0): the greedy .* backs off to the LAST
\* character of the class
SearchBefore(s) == Slice(s, 1, LastOp(s) - 1)

\* re.search('(?<=[\-,\+]).*', s).group(0): the leftmost position preceded by a
\* character of the class is the one after the FIRST such character
SearchAfter(s) == From(s, FirstOp(s) + 1)

\* re.search('[\-,\+]', s).group(0)
SearchOp(s) == <<s[FirstOp(s)]>>

(***************************************************************************)
(* eval: Python's expression evaluator on the fragment the resolver can    *)
(* feed it from the modelled queries: decimal integer literals, names,     *)
(* unary and binary + and -, binary *, and the comma (a tuple display).    *)
(* A value is a record [k, v, s]:                                          *)
(*    k = "int"         the int v,                                         *)
(*    k = "str"         the str s,                                         *)
(*    k = "obj"         an object that is neither (a tuple),               *)
(*    k = "exc"         eval raised (SyntaxError, NameError, TypeError),   *)
(*    k = "unmodelled"  the text is outside the fragment.                  *)
(***************************************************************************)

IntVal(n) == [k |-> "int", v |-> n, s |-> <<>>]

\* a str value: the operands are text until they are resolved
StrVal(s) == [k |-> "str", v |-> 0, s |-> s]

ObjVal == [k |-> "obj", v |-> 0, s |-> <<>>]

ExcVal == [k |-> "exc", v |-> 0, s |-> <<>>]

Unmodelled == [k |-> "unmodelled", v |-> 0, s |-> <<>>]

\* the names bound in parse_timefilter's frame when eval runs
LocalNames ==
    {<<"e","n","d">>, <<"i">>, <<"i","n","s">>, <<"k">>, <<"k","w","a","r","g","s">>,
     <<"o","p","e","r","a","n","d","s">>, <<"o","p","e","r","a","t","o","r">>, <<"q","u","e","r","y">>,
     <<"q","u","e","r","y","_","c","o","n","t","e","n","t">>,
     <<"q","u","e","r","y","_","r","a","n","g","e">>, <<"r","a","n","g","e">>, <<"s","t","a","r","t">>,
     <<"t","s">>}

\* the names bound at module level of simple_note.py
GlobalNames ==
    {<<"B","I","N","_","D","I","R">>, <<"C","o","n","s","o","l","e">>, <<"D","B","_","P","A","T","H">>,
     <<"E","D","I","T","A","B","L","E","_","K","E","Y","S">>,
     <<"I","N","T","_","F","I","E","L","D","_","K","E","Y","S">>, <<"L","O","G","_","T","E","M","P">>,
     <<"R","E","A","D","_","O","N","L","Y","_","K","E","Y","S">>,
     <<"S","T","R","_","F","I","E","L","D","_","K","E","Y","S">>,
     <<"T","I","M","E","_","F","I","E","L","D","_","K","E","Y","S">>, <<"T","M","P","_","D","I","R">>,
     <<"T","a","b","l","e">>, <<"_","_","b","u","i","l","t","i","n","s","_","_">>,
     <<"_","_","d","o","c","_","_">>, <<"_","_","f","i","l","e","_","_">>,
     <<"_","_","n","a","m","e","_","_">>, <<"a","d","d","_","l","o","g">>,
     <<"a","r","g","p","a","r","s","e">>, <<"c","h","e","c","k","_","l","o","g","_","t","a","b","l","e">>,
     <<"c","o","p","y">>, <<"c","r","e","a","t","e","_","c","o","n","n","e","c","t","i","o","n">>,
     <<"d","a","t","e","t","i","m","e">>, <<"d","e","l","e","t","e","_","l","o","g">>,
     <<"d","i","c","t","_","f","a","c","t","o","r","y">>, <<"d","i","s","p","l","a","y","_","l","o","g">>,
     <<"e","d","i","t","_","l","o","g">>, <<"g","e","t","_","l","o","g">>, <<"j","s","o","n">>,
     <<"m","o","n","t","h","r","a","n","g","e">>, <<"o","s">>,
     <<"p","a","r","s","e","_","f","i","l","t","e","r">>,
     <<"p","a","r","s","e","_","r","e","g","e","x","f","i","l","t","e","r">>,
     <<"p","a","r","s","e","_","t","i","m","e","f","i","l","t","e","r">>, <<"r","e">>,
     <<"s","i","m","p","l","e","_","n","o","t","e">>, <<"s","q","l","i","t","e","3">>,
     <<"s","t","r","_","p","r","e","s","e","n","t","e","r">>, <<"s","u","b","p","r","o","c","e","s","s">>,
     <<"t","e","s","t","_","p","a","r","s","e","_","t","i","m","e","f","i","l","t","e","r">>,
     <<"t","i","m","e">>, <<"t","i","m","e","d","e","l","t","a">>, <<"u","u","i","d">>, <<"y","a","m","l">>}

\* the module-level names of simple_note.py that a def binds to a function
FunctionNames ==
    {<<"a","d","d","_","l","o","g">>, <<"c","h","e","c","k","_","l","o","g","_","t","a","b","l","e">>,
     <<"c","r","e","a","t","e","_","c","o","n","n","e","c","t","i","o","n">>,
     <<"d","e","l","e","t","e","_","l","o","g">>, <<"d","i","c","t","_","f","a","c","t","o","r","y">>,
     <<"d","i","s","p","l","a","y","_","l","o","g">>, <<"e","d","i","t","_","l","o","g">>,
     <<"g","e","t","_","l","o","g">>, <<"p","a","r","s","e","_","f","i","l","t","e","r">>,
     <<"p","a","r","s","e","_","r","e","g","e","x","f","i","l","t","e","r">>,
     <<"p","a","r","s","e","_","t","i","m","e","f","i","l","t","e","r">>,
     <<"s","i","m","p","l","e","_","n","o","t","e">>, <<"s","t","r","_","p","r","e","s","e","n","t","e","r">>,
     <<"t","e","s","t","_","p","a","r","s","e","_","t","i","m","e","f","i","l","t","e","r">>}

\* the names of Python's builtins module
BuiltinNames ==
    {<<"A","r","i","t","h","m","e","t","i","c","E","r","r","o","r">>,
     <<"A","s","s","e","r","t","i","o","n","E","r","r","o","r">>,
     <<"A","t","t","r","i","b","u","t","e","E","r","r","o","r">>,
     <<"B","a","s","e","E","x","c","e","p","t","i","o","n">>,
     <<"B","a","s","e","E","x","c","e","p","t","i","o","n","G","r","o","u","p">>,
     <<"B","l","o","c","k","i","n","g","I","O","E","r","r","o","r">>,
     <<"B","r","o","k","e","n","P","i","p","e","E","r","r","o","r">>,
     <<"B","u","f","f","e","r","E","r","r","o","r">>, <<"B","y","t","e","s","W","a","r","n","i","n","g">>,
     <<"C","h","i","l","d","P","r","o","c","e","s","s","E","r","r","o","r">>,
     <<"C","o","n","n","e","c","t","i","o","n","A","b","o","r","t","e","d","E","r","r","o","r">>,
     <<"C","o","n","n","e","c","t","i","o","n","E","r","r","o","r">>,
     <<"C","o","n","n","e","c","t","i","o","n","R","e","f","u","s","e","d","E","r","r","o","r">>,
     <<"C","o","n","n","e","c","t","i","o","n","R","e","s","e","t","E","r","r","o","r">>,
     <<"D","e","p","r","e","c","a","t","i","o","n","W","a","r","n","i","n","g">>,
     <<"E","O","F","E","r","r","o","r">>, <<"E","l","l","i","p","s","i","s">>,
     <<"E","n","c","o","d","i","n","g","W","a","r","n","i","n","g">>,
     <<"E","n","v","i","r","o","n","m","e","n","t","E","r","r","o","r">>,
     <<"E","x","c","e","p","t","i","o","n">>, <<"E","x","c","e","p","t","i","o","n","G","r","o","u","p">>,
     <<"F","a","l","s","e">>, <<"F","i","l","e","E","x","i","s","t","s","E","r","r","o","r">>,
     <<"F","i","l","e","N","o","t","F","o","u","n","d","E","r","r","o","r">>,
     <<"F","l","o","a","t","i","n","g","P","o","i","n","t","E","r","r","o","r">>,
     <<"F","u","t","u","r","e","W","a","r","n","i","n","g">>,
     <<"G","e","n","e","r","a","t","o","r","E","x","i","t">>, <<"I","O","E","r","r","o","r">>,
     <<"I","m","p","o","r","t","E","r","r","o","r">>,
     <<"I","m","p","o","r","t","W","a","r","n","i","n","g">>,
     <<"I","n","d","e","n","t","a","t","i","o","n","E","r","r","o","r">>,
     <<"I","n","d","e","x","E","r","r","o","r">>,
     <<"I","n","t","e","r","r","u","p","t","e","d","E","r","r","o","r">>,
     <<"I","s","A","D","i","r","e","c","t","o","r","y","E","r","r","o","r">>,
     <<"K","e","y","E","r","r","o","r">>,
     <<"K","e","y","b","o","a","r","d","I","n","t","e","r","r","u","p","t">>,
     <<"L","o","o","k","u","p","E","r","r","o","r">>, <<"M","e","m","o","r","y","E","r","r","o","r">>,
     <<"M","o","d","u","l","e","N","o","t","F","o","u","n","d","E","r","r","o","r">>,
     <<"N","a","m","e","E","r","r","o","r">>, <<"N","o","n","e">>,
     <<"N","o","t","A","D","i","r","e","c","t","o","r","y","E","r","r","o","r">>,
     <<"N","o","t","I","m","p","l","e","m","e","n","t","e","d">>,
     <<"N","o","t","I","m","p","l","e","m","e","n","t","e","d","E","r","r","o","r">>,
     <<"O","S","E","r","r","o","r">>, <<"O","v","e","r","f","l","o","w","E","r","r","o","r">>,
     <<"P","e","n","d","i","n","g","D","e","p","r","e","c","a","t","i","o","n","W","a","r","n","i","n","g">>,
     <<"P","e","r","m","i","s","s","i","o","n","E","r","r","o","r">>,
     <<"P","r","o","c","e","s","s","L","o","o","k","u","p","E","r","r","o","r">>,
     <<"R","e","c","u","r","s","i","o","n","E","r","r","o","r">>,
     <<"R","e","f","e","r","e","n","c","e","E","r","r","o","r">>,
     <<"R","e","s","o","u","r","c","e","W","a","r","n","i","n","g">>,
     <<"R","u","n","t","i","m","e","E","r","r","o","r">>,
     <<"R","u","n","t","i","m","e","W","a","r","n","i","n","g">>,
     <<"S","t","o","p","A","s","y","n","c","I","t","e","r","a","t","i","o","n">>,
     <<"S","t","o","p","I","t","e","r","a","t","i","o","n">>,
     <<"S","y","n","t","a","x","E","r","r","o","r">>,
     <<"S","y","n","t","a","x","W","a","r","n","i","n","g">>,
     <<"S","y","s","t","e","m","E","r","r","o","r">>, <<"S","y","s","t","e","m","E","x","i","t">>,
     <<"T","a","b","E","r","r","o","r">>, <<"T","i","m","e","o","u","t","E","r","r","o","r">>,
     <<"T","r","u","e">>, <<"T","y","p","e","E","r","r","o","r">>,
     <<"U","n","b","o","u","n","d","L","o","c","a","l","E","r","r","o","r">>,
     <<"U","n","i","c","o","d","e","D","e","c","o","d","e","E","r","r","o","r">>,
     <<"U","n","i","c","o","d","e","E","n","c","o","d","e","E","r","r","o","r">>,
     <<"U","n","i","c","o","d","e","E","r","r","o","r">>,
     <<"U","n","i","c","o","d","e","T","r","a","n","s","l","a","t","e","E","r","r","o","r">>,
     <<"U","n","i","c","o","d","e","W","a","r","n","i","n","g">>,
     <<"U","s","e","r","W","a","r","n","i","n","g">>, <<"V","a","l","u","e","E","r","r","o","r">>,
     <<"W","a","r","n","i","n","g">>,
     <<"Z","e","r","o","D","i","v","i","s","i","o","n","E","r","r","o","r">>,
     <<"_","_","b","u","i","l","d","_","c","l","a","s","s","_","_">>,
     <<"_","_","d","e","b","u","g","_","_">>, <<"_","_","d","o","c","_","_">>,
     <<"_","_","i","m","p","o","r","t","_","_">>, <<"_","_","l","o","a","d","e","r","_","_">>,
     <<"_","_","n","a","m","e","_","_">>, <<"_","_","p","a","c","k","a","g","e","_","_">>,
     <<"_","_","s","p","e","c","_","_">>, <<"a","b","s">>, <<"a","i","t","e","r">>, <<"a","l","l">>,
     <<"a","n","e","x","t">>, <<"a","n","y">>, <<"a","s","c","i","i">>, <<"b","i","n">>, <<"b","o","o","l">>,
     <<"b","r","e","a","k","p","o","i","n","t">>, <<"b","y","t","e","a","r","r","a","y">>,
     <<"b","y","t","e","s">>, <<"c","a","l","l","a","b","l","e">>, <<"c","h","r">>,
     <<"c","l","a","s","s","m","e","t","h","o","d">>, <<"c","o","m","p","i","l","e">>,
     <<"c","o","m","p","l","e","x">>, <<"c","o","p","y","r","i","g","h","t">>,
     <<"c","r","e","d","i","t","s">>, <<"d","e","l","a","t","t","r">>, <<"d","i","c","t">>, <<"d","i","r">>,
     <<"d","i","v","m","o","d">>, <<"e","n","u","m","e","r","a","t","e">>, <<"e","v","a","l">>,
     <<"e","x","e","c">>, <<"e","x","i","t">>, <<"f","i","l","t","e","r">>, <<"f","l","o","a","t">>,
     <<"f","o","r","m","a","t">>, <<"f","r","o","z","e","n","s","e","t">>, <<"g","e","t","a","t","t","r">>,
     <<"g","l","o","b","a","l","s">>, <<"h","a","s","a","t","t","r">>, <<"h","a","s","h">>,
     <<"h","e","l","p">>, <<"h","e","x">>, <<"i","d">>, <<"i","n","p","u","t">>, <<"i","n","t">>,
     <<"i","s","i","n","s","t","a","n","c","e">>, <<"i","s","s","u","b","c","l","a","s","s">>,
     <<"i","t","e","r">>, <<"l","e","n">>, <<"l","i","c","e","n","s","e">>, <<"l","i","s","t">>,
     <<"l","o","c","a","l","s">>, <<"m","a","p">>, <<"m","a","x">>,
     <<"m","e","m","o","r","y","v","i","e","w">>, <<"m","i","n">>, <<"n","e","x","t">>,
     <<"o","b","j","e","c","t">>, <<"o","c","t">>, <<"o","p","e","n">>, <<"o","r","d">>, <<"p","o","w">>,
     <<"p","r","i","n","t">>, <<"p","r","o","p","e","r","t","y">>, <<"q","u","i","t">>,
     <<"r","a","n","g","e">>, <<"r","e","p","r">>, <<"r","e","v","e","r","s","e","d">>,
     <<"r","o","u","n","d">>, <<"s","e","t">>, <<"s","e","t","a","t","t","r">>, <<"s","l","i","c","e">>,
     <<"s","o","r","t","e","d">>, <<"s","t","a","t","i","c","m","e","t","h","o","d">>, <<"s","t","r">>,
     <<"s","u","m">>, <<"s","u","p","e","r">>, <<"t","u","p","l","e">>, <<"t","y","p","e">>,
     <<"v","a","r","s">>, <<"z","i","p">>}

\* Python's reserved words
Keywords ==
    {<<"F","a","l","s","e">>, <<"N","o","n","e">>, <<"T","r","u","e">>, <<"a","n","d">>, <<"a","s">>,
     <<"a","s","s","e","r","t">>, <<"a","s","y","n","c">>, <<"a","w","a","i","t">>, <<"b","r","e","a","k">>,
     <<"c","l","a","s","s">>, <<"c","o","n","t","i","n","u","e">>, <<"d","e","f">>, <<"d","e","l">>,
     <<"e","l","i","f">>, <<"e","l","s","e">>, <<"e","x","c","e","p","t">>, <<"f","i","n","a","l","l","y">>,
     <<"f","o","r">>, <<"f","r","o","m">>, <<"g","l","o","b","a","l">>, <<"i","f">>,
     <<"i","m","p","o","r","t">>, <<"i","n">>, <<"i","s">>, <<"l","a","m","b","d","a">>,
     <<"n","o","n","l","o","c","a","l">>, <<"n","o","t">>, <<"o","r">>, <<"p","a","s","s">>,
     <<"r","a","i","s","e">>, <<"r","e","t","u","r","n">>, <<"t","r","y">>, <<"w","h","i","l","e">>,
     <<"w","i","t","h">>, <<"y","i","e","l","d">>}

\* the names eval finds bound when parse_timefilter of simple_note.py calls
\* it (or reserved words)
ScopeNames == LocalNames \cup GlobalNames \cup BuiltinNames \cup Keywords

Tok(t, v, s) == [t |-> t, v |-> v, s |-> s]

\* the index after the decimal literal starting at i: digits, each optionally
\* preceded by one underscore
RECURSIVE IntEnd(_, _)
IntEnd(s, i) ==
    IF i <= Len(s) /\ IsDigit(s[i]) THEN IntEnd(s, i + 1)
    ELSE IF i + 1 <= Len(s) /\ s[i] = "_" /\ IsDigit(s[i + 1]) THEN IntEnd(s, i + 2)
    ELSE i

RECURSIVE NameEnd(_, _)
NameEnd(s, i) == IF i <= Len(s) /\ IsNameChar(s[i]) THEN NameEnd(s, i + 1) ELSE i

\* int of the digits of s, underscores skipped
RECURSIVE DecValue(_, _)
DecValue(s, acc) ==
    IF s = <<>> THEN acc
    ELSE IF Head(s) = "_" THEN DecValue(Tail(s), acc)
    ELSE DecValue(Tail(s), acc * 10 + DigitVal(Head(s)))

HexDigitSet == DigitSet \cup {"a", "b", "c", "d", "e", "f", "A", "B", "C", "D", "E", "F"}

\* letters that, right after a number, may continue a literal or start a
\* keyword operator (5e3, 5j, 5if, 5or, 5and, 5in, 5is, 5not, 5else, 5for)
LiteralTailChars == {"e", "E", "j", "J", "a", "i", "o", "n", "f"}

\* the token of the decimal literal s[j..e-1], whose value is v, and the
\* tokens after it
RECURSIVE Tokenize(_, _)
TokenizeInt(s, j, e, v) ==
    IF e <= Len(s) /\ (s[e] \in LiteralTailChars \/ s[e] = ".")
    THEN <<Tok("unmodelled", 0, <<>>)>>
    ELSE IF /\ e + 1 <= Len(s) /\ s[j] = "0" /\ e = j + 1
            /\ \/ s[e] \in {"x", "X"} /\ s[e + 1] \in HexDigitSet
               \/ s[e] \in {"b", "B"} /\ s[e + 1] \in {"0", "1"}
    THEN <<Tok("unmodelled", 0, <<>>)>>    \* 0x1f, 0b10
    ELSE IF e <= Len(s) /\ IsNameStart(s[e])
    THEN <<Tok("bad", 0, <<>>)>>           \* invalid decimal literal
    ELSE IF s[j] = "0" /\ v # 0
    THEN <<Tok("bad", 0, <<>>)>>           \* leading zeros are not permitted
    ELSE <<Tok("int", v, <<>>)>> \o Tokenize(s, e)

\* the token of the name s[j..e-1] and the tokens after it
TokenizeName(s, j, e) == <<Tok("name", 0, Slice(s, j, e - 1))>> \o Tokenize(s, e)

\* the tokens of s from its character j on, which is no space
TokenizeAt(s, j) ==
    IF j > Len(s) THEN <<>>
    ELSE IF IsDigit(s[j]) THEN TokenizeInt(s, j, IntEnd(s, j + 1), DecValue(Slice(s, j, IntEnd(s, j + 1) - 1), 0))
    ELSE IF IsNameStart(s[j]) THEN TokenizeName(s, j, NameEnd(s, j + 1))
    ELSE IF s[j] = "*" /\ j + 1 <= Len(s) /\ s[j + 1] = "*" THEN <<Tok("unmodelled", 0, <<>>)>>    \* **
    ELSE IF s[j] \in {"+", "-", "*", ","} THEN <<Tok("op", 0, <<s[j]>>)>> \o Tokenize(s, j + 1)
    ELSE <<Tok("unmodelled", 0, <<>>)>>

\* the tokens of s from i on; a "bad" token is a SyntaxError of the tokenizer,
\* an "unmodelled" token is text outside the fragment; both end the scan
Tokenize(s, i) == TokenizeAt(s, SkipSpaces(s, i))

\* The grammar, as a scan over the tokens. st is what the parser expects:
\*   "E0" an operand, nothing read yet or just after a comma (the text may end
\*        after a comma: a tuple display)
\*   "E"  an operand, after a unary or binary operator
\*   "A"  an operator, a comma or the end, after an operand
\* first is TRUE until a token has been read.
RECURSIVE SyntaxOK(_, _, _)
SyntaxStep(t, rest, st) ==
    IF t.t \in {"int", "name"} THEN st # "A" /\ SyntaxOK(rest, "A", FALSE)
    ELSE IF t.s \in {<<"+">>, <<"-">>} THEN SyntaxOK(rest, "E", FALSE)
    ELSE IF t.s = <<"*">> THEN st = "A" /\ SyntaxOK(rest, "E", FALSE)
    ELSE (* comma *) st = "A" /\ SyntaxOK(rest, "E0", FALSE)

SyntaxOK(toks, st, first) ==
    IF toks = <<>> THEN st = "A" \/ (st = "E0" /\ ~first)
    ELSE SyntaxStep(Head(toks), Tail(toks), st)

\* The value of a comma-free, name-free, well-formed token list:
\*   total  the sum of the terms already closed
\*   tsign  the sign with which the open term enters the sum
\*   term   the product of the open term's factors read so far
\*   fsign  the sign collected from unary operators for the next factor
\*   st     "E" before a factor, "A" after one
RECURSIVE Arith(_, _, _, _, _, _)
ArithStep(t, rest, total, tsign, term, fsign, st) ==
    IF t.t = "int" THEN Arith(rest, total, tsign, term * fsign * t.v, 1, "A")
    ELSE IF t.s = <<"*">> THEN Arith(rest, total, tsign, term, 1, "E")
    ELSE IF st = "E" THEN
        \* unary + or -
        Arith(rest, total, tsign, term, IF t.s = <<"-">> THEN 0 - fsign ELSE fsign, "E")
    ELSE
        \* binary + or -: the open term is closed
        Arith(rest, total + tsign * term, IF t.s = <<"-">> THEN 0 - 1 ELSE 1, 1, 1, "E")

Arith(toks, total, tsign, term, fsign, st) ==
    IF toks = <<>> THEN total + tsign * term
    ELSE ArithStep(Head(toks), Tail(toks), total, tsign, term, fsign, st)

HasTok(toks, kinds) == \E n \in 1..Len(toks) : toks[n].t \in kinds

\* The value of a well-formed token list that holds names, bound being the
\* names of the scope and functions those of them bound to a function. A
\* bound name that is no function has a value outside the fragment; an
\* unbound name raises NameError; a function is no operand of + - *
\* (TypeError), and alone or in a tuple display it is outside the fragment.
EvalNames(toks, bound, functions) ==
    IF \E n \in 1..Len(toks) : toks[n].t = "name" /\ toks[n].s \in bound \ functions
    THEN Unmodelled
    ELSE IF \E n \in 1..Len(toks) : toks[n].t = "name" /\ toks[n].s \notin bound
    THEN ExcVal
    ELSE IF Len(toks) = 1 \/ \E n \in 1..Len(toks) : toks[n].s = <<",">>
    THEN Unmodelled
    ELSE ExcVal

\* the value of a token list in a scope
EvalTokens(toks, bound, functions) ==
    IF HasTok(toks, {"unmodelled"}) THEN Unmodelled
    ELSE IF HasTok(toks, {"bad"}) \/ ~SyntaxOK(toks, "E0", TRUE) THEN ExcVal
    ELSE IF HasTok(toks, {"name"}) THEN EvalNames(toks, bound, functions)
    ELSE IF \E n \in 1..Len(toks) : toks[n].s = <<",">> THEN ObjVal
    ELSE IntVal(Arith(toks, 0, 1, 1, 1, "E"))

\* eval(s), called in parse_timefilter of simple_note.py
eval(s) == EvalTokens(Tokenize(s, 1), ScopeNames, FunctionNames)

(***************************************************************************)
(* datetime, timedelta and calendar.monthrange, as parse_timefilter uses   *)
(* them. Python's proleptic Gregorian ordinal: day 1 is 0001-01-01.        *)
(***************************************************************************)

datetime(y, mo, d, h, mi, s) ==
    [year |-> y, month |-> mo, day |-> d, hour |-> h, minute |-> mi, second |-> s]

IsLeap(y) == y % 4 = 0 /\ (y % 100 # 0 \/ y % 400 = 0)

\* (mutation of monthrange: February always has 28 days)
monthrange_no_leap(y, m) ==
    IF m = 2 THEN 28 ELSE IF m \in {4, 6, 9, 11} THEN 30 ELSE 31

\* calendar.monthrange(y, m)[1]: the number of days of the month
monthrange(y, m) ==
    IF m = 2 THEN (IF IsLeap(y) THEN 29 ELSE 28)
    ELSE IF m \in {4, 6, 9, 11} THEN 30 ELSE 31

\* the number of days before January 1st of year y
DaysBeforeYear(y) == (y - 1) * 365 + (y - 1) \div 4 - (y - 1) \div 100 + (y - 1) \div 400

\* the number of days of year y before the first day of month m
RECURSIVE DaysBeforeMonth(_, _)
DaysBeforeMonth(y, m) == IF m = 1 THEN 0 ELSE DaysBeforeMonth(y, m - 1) + monthrange(y, m - 1)

toordinal(dt) == DaysBeforeYear(dt.year) + DaysBeforeMonth(dt.year, dt.month) + dt.day

\* the year holding ordinal n: the last year whose January 1st is not after n
RECURSIVE YearOf(_, _)
YearOf(n, y) == IF DaysBeforeYear(y + 1) < n THEN YearOf(n, y + 1) ELSE y

RECURSIVE MonthOf(_, _, _)
MonthOf(y, rest, m) ==
    IF rest > monthrange(y, m) THEN MonthOf(y, rest - monthrange(y, m), m + 1) ELSE m

\* the datetime of ordinal n at second-of-day sec
fromordinal(n, sec) ==
    LET y == YearOf(n, (n \div 366) + 1)
        rest == n - DaysBeforeYear(y)
        m == MonthOf(y, rest, 1)
    IN  datetime(y, m, rest - DaysBeforeMonth(y, m), sec \div 3600, (sec % 3600) \div 60, sec % 60)

SecondOfDay(dt) == dt.hour * 3600 + dt.minute * 60 + dt.second

\* (mutation of plus_timedelta: the hours are dropped)
plus_timedelta_no_hours(dt, days, hours, minutes, seconds) ==
    LET total == SecondOfDay(dt) + minutes * 60 + seconds
    IN  fromordinal(toordinal(dt) + days + (total \div 86400), total % 86400)

\* (mutation of plus_timedelta: the minutes are dropped)
plus_timedelta_no_minutes(dt, days, hours, minutes, seconds) ==
    LET total == SecondOfDay(dt) + hours * 3600 + seconds
    IN  fromordinal(toordinal(dt) + days + (total \div 86400), total % 86400)

\* dt + timedelta(days, hours, minutes, seconds) (negative parts subtract)
plus_timedelta(dt, days, hours, minutes, seconds) ==
    LET total == SecondOfDay(dt) + hours * 3600 + minutes * 60 + seconds
    IN  fromordinal(toordinal(dt) + days + (total \div 86400), total % 86400)

\* (mutation of weekday: Sunday is 0, Saturday is 6)
weekday_sunday_0(dt) == toordinal(dt) % 7

\* datetime.weekday(): Monday is 0, Sunday is 6
weekday(dt) == (toordinal(dt) + 6) % 7

\* the ordinal of 1970-01-01
EpochOrdinal == 719163

\* int(dt.timestamp()) of a naive datetime; the local zone of the model is a
\* fixed-offset zone at UTC
timestamp(dt) == (toordinal(dt) - EpochOrdinal) * 86400 + SecondOfDay(dt)

(***************************************************************************)
(* The tables of parse_timefilter.                                         *)
(***************************************************************************)

\* (mutation of ins: an hour of 360 seconds)
ins_hour_360 == << <<"s", 1>>, <<"m", 60>>, <<"h", 360>>, <<"d", 86400>> >>

\* ins: the interval set, (unit letter, seconds) in the dict's insertion order
ins == << <<"s", 1>>, <<"m", 60>>, <<"h", 3600>>, <<"d", 86400>> >>

now_ == <<"n", "o", "w">>

start_of_today == <<"s", "t", "a", "r", "t", "_", "o", "f", "_", "t", "o", "d", "a", "y">>

end_of_today == <<"e", "n", "d", "_", "o", "f", "_", "t", "o", "d", "a", "y">>

start_of_this_month == <<"s", "t", "a", "r", "t", "_", "o", "f", "_", "t", "h", "i", "s", "_", "m", "o", "n", "t", "h">>

end_of_this_month == <<"e", "n", "d", "_", "o", "f", "_", "t", "h", "i", "s", "_", "m", "o", "n", "t", "h">>

start_of_this_week == <<"s", "t", "a", "r", "t", "_", "o", "f", "_", "t", "h", "i", "s", "_", "w", "e", "e", "k">>

end_of_this_week == <<"e", "n", "d", "_", "o", "f", "_", "t", "h", "i", "s", "_", "w", "e", "e", "k">>

\* the keys of ts
AnchorNames ==
    {now_, start_of_today, end_of_today, start_of_this_month, end_of_this_month,
     start_of_this_week, end_of_this_week}

\* ts: the timeset populated from ts['now']
timeset(tnow) ==
    LET sot == datetime(tnow.year, tnow.month, tnow.day, 0, 0, 0)
        eot == plus_timedelta(sot, 0, 23, 59, 59)
        som == datetime(tnow.year, tnow.month, 1, 0, 0, 0)
        eom == plus_timedelta(som, monthrange(tnow.year, tnow.month) - 1, 23, 59, 59)
        sow == plus_timedelta(sot, 0 - weekday(eot), 0, 0, 0)
        eow == plus_timedelta(sow, 6, 0, 59, 59)
    IN  [a \in AnchorNames |->
            IF a = now_ THEN tnow
            ELSE IF a = start_of_today THEN sot
            ELSE IF a = end_of_today THEN eot
            ELSE IF a = start_of_this_month THEN som
            ELSE IF a = end_of_this_month THEN eom
            ELSE IF a = start_of_this_week THEN sow
            ELSE eow]


(***************************************************************************)
(* The resolution of one bound: the body of `for k in query_range.keys()`. *)
(* A step result is [st, val, out]: st is "ok" or the way the call ends    *)
(* ("exit1" for exit(1), "KeyError" for the uncaught exception), val the   *)
(* value assigned, out the lines printed.                                  *)
(***************************************************************************)

MsgInvalidOperand == "invalid time operand"

MsgException == "exception text"

MsgInvalidRange == "Invalid timefilter range"

Step(st, val, out) == [st |-> st, val |-> val, out |-> out]

\* str(x) of an operand that is an int or still a str
PyStr(x) == IF x.k = "int" THEN str(x.v) ELSE x.s

\* operands[0]: an anchor, a numeric literal (looked up in ts: KeyError), or
\* left as it is after the message
ResolveBase(text, tset) ==
    IF text \in DOMAIN tset THEN Step("ok", IntVal(timestamp(tset[text])), <<>>)
    ELSE IF isnumeric(text) THEN Step("KeyError", StrVal(text), <<>>)
    ELSE Step("ok", StrVal(text), <<MsgInvalidOperand>>)

\* the first key of ins found in the text, 0 when there is none
RECURSIVE FirstInterval(_, _)
FirstInterval(text, n) ==
    IF n > Len(ins) THEN 0
    ELSE IF Contains(text, ins[n][1]) THEN n
    ELSE FirstInterval(text, n + 1)

\* what an eval of the resolver leads to: its value, or exit(1) after
\* print(e) when it raised
Evaluated(r) ==
    IF r.k = "exc" THEN Step("exit1", r, <<MsgException>>)
    ELSE IF r.k = "unmodelled" THEN Step("unmodelled", r, <<>>)
    ELSE Step("ok", r, <<>>)

\* operands[1] when ins[n] is the first unit letter found: every occurrence is
\* replaced by '* <seconds>' and the text evaluated; it stays text when no
\* unit letter is found (n = 0)
ResolveTailWith(text, n) ==
    IF n = 0 THEN Step("ok", StrVal(text), <<>>)
    ELSE Evaluated(eval(replace(text, ins[n][1], <<"*", " ">> \o str(ins[n][2]))))

ResolveTail(text) == ResolveTailWith(text, FirstInterval(text, 1))

\* eval(' '.join([str(operands[0]), operator, str(operands[1])]))
Combine(op0, operator, op1) ==
    IF op1.k = "obj" THEN Step("unmodelled", op1, <<>>)
    ELSE Evaluated(eval(join(<<PyStr(op0), operator, PyStr(op1)>>)))

\* the offset branch, b and t being what operands[0] and operands[1] led to
ResolveOffset(b, operator, t) ==
    IF b.st # "ok" THEN b
    ELSE IF t.st # "ok" THEN Step(t.st, t.val, b.out \o t.out)
    ELSE [Combine(b.val, operator, t.val) EXCEPT !.out = b.out \o @]

ResolveBound(text, tset) ==
    IF text \in DOMAIN tset THEN Step("ok", IntVal(timestamp(tset[text])), <<>>)
    ELSE IF HasSign(text) THEN
        ResolveOffset(ResolveBase(strip(SearchBefore(text)), tset),
                      strip(SearchOp(text)),
                      ResolveTail(strip(SearchAfter(text))))
    ELSE Step("exit1", StrVal(text), <<MsgInvalidRange>>)

\* isinstance(x, int)
IsInt(x) == x.k = "int"

\* (mutation of the final check: only 'start' is checked)
ValidRange_start_only(qr) == IsInt(qr.start)

\* (mutation of the final check: a range with start after end is rejected)
ValidRange_ordered(qr) == IsInt(qr.start) /\ IsInt(qr.end) /\ qr.start.v <= qr.end.v

\* the final check: any([not isinstance(query_range[k], int) for k in ...])
ValidRange(qr) == IsInt(qr.start) /\ IsInt(qr.end)


(***************************************************************************)
(* The queries of the model. A query is built from a shape, which is kept  *)
(* beside the text so that properties can speak of the bound the user      *)
(* wrote:                                                                  *)
(*   lead, eqL, eqR   spaces before `range`, before and after `=`          *)
(*   toL, toR         spaces added before and after the ' to ' separator   *)
(*   b1, b2           the two bounds                                       *)
(*   third            a third ' to now' part is appended                   *)
(* and a bound is  base [padL op padR n unit rest]:                        *)
(*   base             the text before the operator                         *)
(*   op               <<>> for a bare bound, else <<"+">> or <<"-">>       *)
(*   n, unit, rest    the tail is str(n) unit rest                         *)
(***************************************************************************)

\* the largest offset count n of the enumerated tails (besides 300, the
\* count of the repository's test)
MaxN == 1

\* the largest integer literal used as a base
MaxK == 1

\* the largest number of spaces at a position where spaces may be written
MaxPad == 1

RECURSIVE Spaces(_)
Spaces(n) == IF n = 0 THEN <<>> ELSE <<" ">> \o Spaces(n - 1)

TO == <<" ", "t", "o", " ">>

Bare(base) ==
    [base |-> base, op |-> <<>>, padL |-> 0, padR |-> 0, n |-> 0, unit |-> <<>>, rest |-> <<>>]

Offset(base, op, padL, padR, n, unit, rest) ==
    [base |-> base, op |-> op, padL |-> padL, padR |-> padR, n |-> n, unit |-> unit, rest |-> rest]

TailText(b) == str(b.n) \o b.unit \o b.rest

BoundText(b) ==
    IF b.op = <<>> THEN b.base
    ELSE b.base \o Spaces(b.padL) \o b.op \o Spaces(b.padR) \o TailText(b)

QueryText(sh) ==
    Spaces(sh.lead) \o RANGE \o Spaces(sh.eqL) \o <<"=">> \o Spaces(sh.eqR)
    \o BoundText(sh.b1) \o Spaces(sh.toL) \o TO \o Spaces(sh.toR) \o BoundText(sh.b2)
    \o (IF sh.third THEN TO \o now_ ELSE <<>>)

Shape(lead, eqL, eqR, toL, toR, b1, b2, third) ==
    [lead |-> lead, eqL |-> eqL, eqR |-> eqR, toL |-> toL, toR |-> toR,
     b1 |-> b1, b2 |-> b2, third |-> third]

\* the spacing of the repository's tests: 'range= a - 5h to b'
Plain(b1, b2) == Shape(0, 0, 1, 0, 0, b1, b2, FALSE)

Signs == {<<"+">>, <<"-">>}

UnitLetters == {ins[n][1] : n \in 1..Len(ins)}

\* the offset counts of the enumerated tails
Counts == (0..MaxN) \cup {300}

\* bases that are no anchor: integer literals, the empty base, a word that is
\* no anchor, and anchors written in another letter case
IntBases == {str(k) : k \in 0..MaxK}

WordBase == <<"y", "e", "s", "t", "e", "r", "d", "a", "y">>

UpperBases == {<<"N", "O", "W">>, <<"S", "t", "a", "r", "t", "_", "O", "f", "_", "T", "o", "d", "a", "y">>}

Bases == AnchorNames \cup IntBases \cup {<<>>, WordBase} \cup UpperBases

\* tails: a unit letter, no unit (digits only), an unknown letter, a unit
\* letter in upper case
UnitTexts == {<<u>> : u \in UnitLetters} \cup {<<>>, <<"x">>, <<"H">>}

\* what follows the first offset in a chained bound
ChainRests == {<<" ", "+", " ", "3", "m">>, <<" ", "-", " ", "1">>}

SimpleBounds ==
    {Bare(base) : base \in Bases}
    \cup {Offset(base, op, 1, 1, n, u, <<>>) :
            base \in Bases, op \in Signs, n \in Counts, u \in UnitTexts}

ChainBounds ==
    {Offset(base, op, 1, 1, 1, u, r) :
        base \in Bases, op \in Signs, u \in UnitTexts, r \in ChainRests}

\* bounds with a comma, which the operand patterns take for an operator
CommaBounds ==
    {Offset(base, op, 1, 1, 1, <<>>, <<",", " ", "3">>) :
        base \in {<<>>, str(MaxK), now_}, op \in Signs}

\* bases that name a function of one of the two source files, or of both
ScopeBases == {<<"m","a","i","n">>, <<"s","i","m","p","l","e","_","n","o","t","e">>, <<"g","e","t","_","l","o","g">>}

ScopeBounds ==
    {Offset(base, op, 1, 1, n, u, <<>>) :
        base \in ScopeBases, op \in Signs, n \in 0..MaxN, u \in {<<"h">>, <<>>}}

\* the bounds written on the other side of the bound under study
Partners ==
    {Bare(now_), Offset(start_of_today, <<"-">>, 1, 1, 1, <<"d">>, <<>>), Bare(str(MaxK))}

StudiedBounds == SimpleBounds \cup ChainBounds \cup CommaBounds \cup ScopeBounds

ValueShapes ==
    {Plain(b, p) : b \in StudiedBounds, p \in Partners}
    \cup {Plain(p, b) : b \in StudiedBounds, p \in Partners}

\* the queries of the repository's tests and some more, under every spacing
SpacedPairs ==
    { <<Offset(now_, <<"-">>, 0, 0, 5, <<"h">>, <<>>), Bare(end_of_today)>>,
      <<Offset(start_of_today, <<"-">>, 0, 0, 1, <<"d">>, <<>>),
        Offset(end_of_this_month, <<"+">>, 0, 0, 3, <<"m">>, <<>>)>>,
      <<Offset(start_of_this_week, <<"-">>, 0, 0, 300, <<"m">>, <<>>),
        Offset(start_of_today, <<"+">>, 0, 0, 7, <<"s">>, <<>>)>>,
      <<Bare(now_), Offset(str(MaxK), <<"+">>, 0, 0, 3, <<"s">>, <<>>)>> }

Pad(b, l, r) == IF b.op = <<>> THEN b ELSE [b EXCEPT !.padL = l, !.padR = r]

SpacedShapes ==
    {Shape(lead, eqL, eqR, toL, toR, Pad(p[1], l, r), Pad(p[2], l, r), FALSE) :
        lead \in 0..MaxPad, eqL \in 0..MaxPad, eqR \in 0..MaxPad, toL \in 0..MaxPad,
        toR \in 0..MaxPad, l \in 0..MaxPad, r \in 0..MaxPad, p \in SpacedPairs}

\* an empty bound, or three parts
PartShapes ==
    {Shape(0, 0, eqR, 0, 0, b1, b2, third) :
        eqR \in 0..1, b1 \in Partners \cup {Bare(<<>>)}, b2 \in Partners \cup {Bare(<<>>)},
        third \in BOOLEAN}

\* bare anchors on both sides
AnchorShapes == {Plain(Bare(a), Bare(b)) : a \in AnchorNames, b \in AnchorNames}

\* the instants supplied as now, and the wall clock of the run
TestNow == datetime(2022, 4, 7, 12, 30, 0)

Nows == {TestNow, datetime(2024, 2, 29, 23, 59, 59)}

Clock == datetime(2023, 12, 31, 0, 0, 0)

\* kwargs: has is FALSE when the caller passes no now (parse_filter does not)
WithNow(d) == [has |-> TRUE, now |-> d]

WithoutNow == [has |-> FALSE, now |-> Clock]

\* the calls of the model: (shape, kwargs)
Calls ==
    (ValueShapes \X {WithNow(d) : d \in Nows})
    \cup (SpacedShapes \X {WithNow(TestNow)})
    \cup ((PartShapes \cup AnchorShapes) \X ({WithNow(d) : d \in Nows} \cup {WithoutNow}))

(***************************************************************************)
(* The call parse_timefilter(query, **kwargs) as a state machine.          *)
(***************************************************************************)

VARIABLES
    shape,          \* how the query was written (not read by the program)
    query,          \* the argument
    kwargs,         \* the keyword arguments
    clock,          \* what datetime.now() returns
    pc,             \* where the call is, or how it ended
    ts,             \* the timeset
    query_content,  \* the query without its `range =`
    query_range,    \* {'start': ..., 'end': ...}: text, then resolved values
    stdout,         \* the lines printed
    ret,            \* the returned dict, <<>> while nothing is returned
    db,             \* the database file in use and the rows of its WORKLOG table
    last            \* the command just run on the table and how it ended

vars == <<shape, query, kwargs, clock, pc, ts, query_content, query_range, stdout, ret, db, last>>

\* no database file is open: the call machine of parse_timefilter has none
NoTable == [file |-> "none", rows |-> <<>>]

\* no command has just run on the table
NoCommand == [cmd |-> "none", st |-> "ok", rows |-> <<>>, out |-> <<>>]

NoRange == [start |-> StrVal(<<>>), end |-> StrVal(<<>>)]

Init ==
    /\ \E c \in Calls :
        /\ shape = c[1]
        /\ kwargs = c[2]
    /\ query = QueryText(shape)
    /\ clock = Clock
    /\ pc = "populate"
    /\ ts = <<>>
    /\ query_content = <<>>
    /\ query_range = NoRange
    /\ stdout = <<>>
    /\ ret = <<>>
    /\ db = NoTable
    /\ last = NoCommand

\* ts['now'] is kwargs['now'] when given, else datetime.now(); the timeset is
\* populated from it
Populate ==
    /\ pc = "populate"
    /\ ts' = timeset(IF kwargs.has THEN kwargs.now ELSE clock)
    /\ pc' = "sub"
    /\ UNCHANGED <<shape, query, kwargs, clock, query_content, query_range, stdout, ret, db, last>>

\* query_content = re.sub('\s*range\s*=\s*', '', query).strip()
StripPrefix ==
    /\ pc = "sub"
    /\ query_content' = strip(ReSubRange(query, 1))
    /\ pc' = "split"
    /\ UNCHANGED <<shape, query, kwargs, clock, ts, query_range, stdout, ret, db, last>>

\* (start, end) = query_content.split(' to '): the unpacking raises ValueError
\* unless there are exactly two parts
Unpack(parts) ==
    IF Len(parts) = 2
    THEN /\ query_range' = [start |-> StrVal(strip(parts[1])), end |-> StrVal(strip(parts[2]))]
         /\ pc' = "for_start"
    ELSE /\ pc' = "ValueError"
         /\ UNCHANGED query_range

SplitRange ==
    /\ pc = "split"
    /\ Unpack(split(query_content, TO))
    /\ UNCHANGED <<shape, query, kwargs, clock, ts, query_content, stdout, ret, db, last>>

\* the end of an iteration whose bound led to r
Assign(k, next, r) ==
    /\ stdout' = stdout \o r.out
    /\ IF r.st = "ok"
       THEN /\ query_range' = [query_range EXCEPT ![k] = r.val]
            /\ pc' = next
       ELSE /\ pc' = r.st
            /\ UNCHANGED query_range

\* one iteration of `for k in query_range.keys()`
Iterate(k, at, next) ==
    /\ pc = at
    /\ Assign(k, next, ResolveBound(query_range[k].s, ts))
    /\ UNCHANGED <<shape, query, kwargs, clock, ts, query_content, ret, db, last>>

ResolveStart == Iterate("start", "for_start", "for_end")

ResolveEnd == Iterate("end", "for_end", "check")

\* the final check and the return
Return ==
    /\ pc = "check"
    /\ IF ValidRange(query_range)
       THEN /\ ret' = query_range
            /\ pc' = "returned"
            /\ UNCHANGED stdout
       ELSE /\ pc' = "exit1"
            /\ stdout' = Append(stdout, MsgInvalidRange)
            /\ UNCHANGED ret
    /\ UNCHANGED <<shape, query, kwargs, clock, ts, query_content, query_range, db, last>>

Next ==
    \/ Populate
    \/ StripPrefix
    \/ SplitRange
    \/ ResolveStart
    \/ ResolveEnd
    \/ Return

Spec == Init /\ [][Next]_vars

\* The calls whose bounds all have an anchor name for base, in any letter
\* case: what is left to vary is the tail.
KeywordBase(b) == b.base \in AnchorNames \cup UpperBases

InitKeywordBases == Init /\ KeywordBase(shape.b1) /\ KeywordBase(shape.b2)

SpecKeywordBases == InitKeywordBases /\ [][Next]_vars

\* The calls whose offset bounds all have a count and one unit letter for
\* tail: what is left to vary is the base.
UnitTail(b) == b.op = <<>> \/ (Len(b.unit) = 1 /\ b.unit[1] \in UnitLetters /\ b.rest = <<>>)

InitUnitTails == Init /\ UnitTail(shape.b1) /\ UnitTail(shape.b2)

SpecUnitTails == InitUnitTails /\ [][Next]_vars

\* the call has ended without a range: exit(1) or an uncaught exception
Failed == pc \in {"exit1", "ValueError", "KeyError"}

Returned == pc = "returned"

\* every eval of every modelled query stays inside the modelled fragment
InFragment == pc # "unmodelled"


\* the whole call as a function of its inputs: how it ends, and what it returns
Resolved(r1, r2) ==
    IF r1.st # "ok" THEN [pc |-> r1.st, ret |-> <<>>]
    ELSE IF r2.st # "ok" THEN [pc |-> r2.st, ret |-> <<>>]
    ELSE IF ValidRange([start |-> r1.val, end |-> r2.val])
    THEN [pc |-> "returned", ret |-> [start |-> r1.val, end |-> r2.val]]
    ELSE [pc |-> "exit1", ret |-> <<>>]

Unpacked(parts, tset) ==
    IF Len(parts) # 2 THEN [pc |-> "ValueError", ret |-> <<>>]
    ELSE Resolved(ResolveBound(strip(parts[1]), tset), ResolveBound(strip(parts[2]), tset))

parse_timefilter(q, kw, clk) ==
    Unpacked(split(strip(ReSubRange(q, 1)), TO), timeset(IF kw.has THEN kw.now ELSE clk))

(***************************************************************************)
(* Properties.                                                             *)
(***************************************************************************)

Ended == Returned \/ Failed

Outcome == [pc |-> pc, ret |-> ret]

\* the split has been made and gave two parts
TwoParts == pc \notin {"populate", "sub", "split", "ValueError"}

\* the iteration for 'start' is over (with a value or with a failure)
StartDone == TwoParts /\ pc # "for_start"

\* the iteration for 'end' is over: it is reached only after 'start' got a value
EndDone ==
    \/ pc \in {"check", "returned"}
    \/ pc \in {"exit1", "KeyError"} /\ query_range.start.k # "str"

\* the factor of a unit letter, as the specification tabulates it
Factor(u) == IF u = "s" THEN 1 ELSE IF u = "m" THEN 60 ELSE IF u = "h" THEN 3600 ELSE 86400

\* a bound written  base  or  base op n u  with one unit letter u
WellFormedTail(b) == UnitTail(b)

\* the value of such a bound whose base is worth v
Expected(b, v) ==
    IF b.op = <<>> THEN v
    ELSE IF b.op = <<"+">> THEN v + b.n * Factor(b.unit[1])
    ELSE v - b.n * Factor(b.unit[1])

AnchorBound(b) == b.base \in AnchorNames /\ WellFormedTail(b)

IntegerBound(b) == isnumeric(b.base) /\ WellFormedTail(b)

Epoch(a) == timestamp(ts[a])

\* C1: a bound `a` resolves to epoch(a) and a bound `a op n u` to
\* epoch(a) op n*factor(u), for every anchor a, whatever the other bound is.
C1_AnchorOffsets ==
    /\ (StartDone /\ AnchorBound(shape.b1))
          => query_range.start = IntVal(Expected(shape.b1, Epoch(shape.b1.base)))
    /\ (EndDone /\ AnchorBound(shape.b2))
          => query_range.end = IntVal(Expected(shape.b2, Epoch(shape.b2.base)))

\* C1 witness: the second test of the repository has returned, both bounds
\* being offsets from anchors
C1_Witness ==
    /\ Returned
    /\ shape.b1.base = start_of_today /\ shape.b1.op = <<"-">> /\ shape.b1.unit = <<"d">>
    /\ shape.b2.base = end_of_this_month /\ shape.b2.op = <<"+">> /\ shape.b2.unit = <<"m">>
    /\ shape.b2.n = 3
    /\ ret.end.v = timestamp(datetime(2022, 5, 1, 0, 2, 59))

\* C2: a bound whose base is a plain integer literal k is accepted: `k`
\* resolves to k and `k op n u` to k op n*factor(u), without failure.
C2_IntegerBase ==
    /\ (StartDone /\ IntegerBound(shape.b1))
          => query_range.start = IntVal(Expected(shape.b1, DecValue(shape.b1.base, 0)))
    /\ (EndDone /\ IntegerBound(shape.b2))
          => query_range.end = IntVal(Expected(shape.b2, DecValue(shape.b2.base, 0)))

\* the text after the first operator of an offset bound holds a unit letter
HasUnit(text) == \E u \in UnitLetters : Contains(text, u)

Bounds(sh) == {sh.b1, sh.b2}

\* C3: a query with an offset bound whose tail holds none of s, m, h, d
\* returns no range.
C3_NoUnitFails ==
    Returned => \A b \in Bounds(shape) : b.op # <<>> => HasUnit(TailText(b))

\* C4: a query with an offset bound whose base is neither an anchor nor an
\* integer literal (the empty base included) returns no range.
C4_BadBaseFails ==
    Returned => \A b \in Bounds(shape) : b.op # <<>> => (b.base \in AnchorNames \/ isnumeric(b.base))

\* the number of non-overlapping occurrences of sep in s, left to right
RECURSIVE Occurrences(_, _, _)
Occurrences(s, sep, i) ==
    IF i > Len(s) THEN 0
    ELSE IF StartsAt(s, i, sep) THEN 1 + Occurrences(s, sep, i + Len(sep))
    ELSE Occurrences(s, sep, i + 1)

\* C5: once the prefix is stripped, a remainder that the token ' to ' does
\* not cut in exactly two makes the call fail (the unpacking raises) and no
\* range is returned.
C5_NotTwoParts ==
    (pc \notin {"populate", "sub", "split"} /\ Occurrences(query_content, TO, 1) # 1)
        => (pc = "ValueError" /\ ret = <<>>)

\* C5 witness: `range= to <bound>` (an empty first bound) has failed, the
\* remainder being one part
C5_Witness ==
    /\ pc = "ValueError"
    /\ shape.b1 = Bare(<<>>) /\ ~shape.third
    /\ Occurrences(query_content, TO, 1) = 0

\* C6: a returned result has exactly the fields start and end, both ints;
\* when a bound did not resolve to an int, the call fails and returns nothing.
C6_IntegerResult ==
    /\ Returned => (DOMAIN ret = {"start", "end"} /\ IsInt(ret.start) /\ IsInt(ret.end))
    /\ (Ended /\ ~(IsInt(query_range.start) /\ IsInt(query_range.end)))
          => (Failed /\ ret = <<>>)

\* C6 witness: both bounds got a value, one of them a tuple, and the final
\* check ended the call
C6_Witness ==
    /\ pc = "exit1"
    /\ query_range.start.k = "int" /\ query_range.end.k = "obj"
    /\ ret = <<>>

\* the number of + and - signs of a text
RECURSIVE CountSigns(_)
CountSigns(text) ==
    IF text = <<>> THEN 0
    ELSE (IF Head(text) \in {"+", "-"} THEN 1 ELSE 0) + CountSigns(Tail(text))

\* C7: a query with a bound that holds two or more +/- operators returns no
\* range.
C7_ChainedRejected ==
    Returned => \A b \in Bounds(shape) : CountSigns(BoundText(b)) <= 1

\* str.lower()
LowerChar(c) ==
    IF \E d \in 1..26 : UpperChars[d] = c
    THEN LowerChars[CHOOSE d \in 1..26 : UpperChars[d] = c]
    ELSE c

Lower(s) == [n \in 1..Len(s) |-> LowerChar(s[n])]

\* C8: a query ends as the same query written in lower case ends.
C8_CaseInsensitive ==
    Ended => Outcome = parse_timefilter(Lower(query), kwargs, clock)

\* the shape written without any optional space
Compact(sh) ==
    [sh EXCEPT !.lead = 0, !.eqL = 0, !.eqR = 0, !.toL = 0, !.toR = 0,
               !.b1 = Pad(sh.b1, 0, 0), !.b2 = Pad(sh.b2, 0, 0)]

\* C9: the spaces around `=`, the spaces added around ' to ' and the spaces
\* around the operator of a bound do not change how the call ends nor what it
\* returns.
C9_WhitespaceInsignificant ==
    Ended => Outcome = parse_timefilter(QueryText(Compact(shape)), kwargs, clock)

\* C9 witness: a query of the repository's test with spaces at every optional
\* position has returned
C9_Witness ==
    /\ Returned
    /\ shape.lead = MaxPad /\ shape.eqL = MaxPad /\ shape.eqR = MaxPad
    /\ shape.toL = MaxPad /\ shape.toR = MaxPad
    /\ shape.b1.base = start_of_today /\ shape.b1.padL = MaxPad /\ shape.b1.padR = MaxPad
    /\ shape.b2.base = end_of_this_month /\ shape.b2.padL = MaxPad /\ shape.b2.padR = MaxPad

\* C10: when both bounds got an int the range is returned as it is, start from
\* the first bound and end from the second, also when start is after end.
C10_NoOrderingCheck ==
    /\ (Ended /\ IsInt(query_range.start) /\ IsInt(query_range.end))
          => (Returned /\ ret = query_range)
    /\ (Returned /\ AnchorBound(shape.b1) /\ AnchorBound(shape.b2))
          => /\ ret.start.v = Expected(shape.b1, Epoch(shape.b1.base))
             /\ ret.end.v = Expected(shape.b2, Epoch(shape.b2.base))

\* C10 witness: a range whose start is after its end has been returned
C10_Witness ==
    /\ Returned
    /\ shape.b1 = Bare(end_of_today) /\ shape.b2 = Bare(start_of_today)
    /\ ret.start.v > ret.end.v

(***************************************************************************)
(* The anchors over the calendar: the same call, with now drawn from every *)
(* day of some years at several times of day.                              *)
(***************************************************************************)

\* the number of years after TestNow's over which now ranges
MaxYears == 2

\* (hour, minute, second): midnight, the last second of the first hour, the
\* first second of the second hour, the time of the tests, the last second
TimesOfDay == {<<0, 0, 0>>, <<0, 59, 59>>, <<1, 0, 0>>, <<12, 30, 0>>, <<23, 59, 59>>}

\* (year, month, day): the days of TestNow's year and of the MaxYears years
\* after it, and the days around the end of February of the one century year
\* whose epoch seconds fit the model's integers (2000, a leap year)
CalendarDays ==
    {<<y, m, d>> : y \in TestNow.year .. (TestNow.year + MaxYears), m \in 1..12, d \in 1..31}
    \cup {<<2000, 2, 28>>, <<2000, 2, 29>>, <<2000, 3, 1>>}

CalendarNows ==
    {datetime(day[1], day[2], day[3], t[1], t[2], t[3]) :
        day \in {c \in CalendarDays : c[3] <= monthrange(c[1], c[2])}, t \in TimesOfDay}

\* 'range= start_of_this_week to end_of_this_week' and
\* 'range= start_of_today to end_of_this_month'
CalendarShapes ==
    {Plain(Bare(start_of_this_week), Bare(end_of_this_week)),
     Plain(Bare(start_of_today), Bare(end_of_this_month))}

InitCalendar ==
    /\ shape \in CalendarShapes
    /\ kwargs \in {WithNow(d) : d \in CalendarNows}
    /\ query = QueryText(shape)
    /\ clock = Clock
    /\ pc = "populate"
    /\ ts = <<>>
    /\ query_content = <<>>
    /\ query_range = NoRange
    /\ stdout = <<>>
    /\ ret = <<>>
    /\ db = NoTable
    /\ last = NoCommand

SpecCalendar == InitCalendar /\ [][Next]_vars

\* the timeset has been populated
Populated == pc # "populate"

\* the seconds from a to b on the wall clock
WallSeconds(a, b) == (toordinal(b) - toordinal(a)) * 86400 + SecondOfDay(b) - SecondOfDay(a)

\* the day number of dt counted from Monday 2022-04-04 (TestNow, 2022-04-07,
\* is a Thursday): Monday is 0 .. Sunday is 6
DayNumber(dt) == (toordinal(dt) - toordinal(datetime(2022, 4, 4, 0, 0, 0))) % 7

SameDay(a, b) == a.year = b.year /\ a.month = b.month /\ a.day = b.day

\* C11: start_of_today <= now <= end_of_today as epoch seconds, start_of_today
\* being 00:00:00 and end_of_today 23:59:59 of now's calendar day.
C11_TodayBracketsNow ==
    Populated =>
        /\ Epoch(start_of_today) <= Epoch(now_)
        /\ Epoch(now_) <= Epoch(end_of_today)
        /\ SameDay(ts[start_of_today], ts[now_]) /\ SecondOfDay(ts[start_of_today]) = 0
        /\ SameDay(ts[end_of_today], ts[now_]) /\ SecondOfDay(ts[end_of_today]) = 86399

\* C11 witness: the anchors are computed for a now in the afternoon, strictly
\* between the two
C11_Witness ==
    /\ Populated
    /\ ts[now_].hour = 12
    /\ Epoch(start_of_today) < Epoch(now_) /\ Epoch(now_) < Epoch(end_of_today)

\* C12: start_of_this_week is 00:00:00 of the Monday on or before now's day:
\* it is a Monday, it is not after start_of_today, and start_of_today is
\* later by now's weekday number (Monday 0 .. Sunday 6) of whole days.
C12_WeekStartsMonday ==
    Populated =>
        /\ DayNumber(ts[start_of_this_week]) = 0
        /\ SecondOfDay(ts[start_of_this_week]) = 0
        /\ Epoch(start_of_this_week) <= Epoch(start_of_today)
        /\ Epoch(start_of_today) - Epoch(start_of_this_week) = 86400 * DayNumber(ts[now_])

\* C12 witness: now is a Sunday, six days after the start of its week
C12_Witness ==
    /\ Populated
    /\ DayNumber(ts[now_]) = 6
    /\ Epoch(start_of_today) - Epoch(start_of_this_week) = 6 * 86400

\* the first day of the month after dt's, at 00:00:00
NextMonth(dt) ==
    IF dt.month = 12 THEN datetime(dt.year + 1, 1, 1, 0, 0, 0)
    ELSE datetime(dt.year, dt.month + 1, 1, 0, 0, 0)

\* the number of days of a month, as the calendar defines it
DaysInMonth(y, m) ==
    IF m \in {4, 6, 9, 11} THEN 30
    ELSE IF m # 2 THEN 31
    ELSE IF y % 400 = 0 \/ (y % 4 = 0 /\ y % 100 # 0) THEN 29 ELSE 28

\* C13: end_of_this_month is start_of_this_month + (days_in_month - 1) days
\* + 23h59m59s, now lies between the two, and one second after
\* end_of_this_month is 00:00:00 of the first day of the following month.
C13_MonthEnd ==
    Populated =>
        /\ ts[start_of_this_month] = datetime(ts[now_].year, ts[now_].month, 1, 0, 0, 0)
        /\ Epoch(end_of_this_month)
              = Epoch(start_of_this_month)
                + (DaysInMonth(ts[now_].year, ts[now_].month) - 1) * 86400 + 86399
        /\ Epoch(start_of_this_month) <= Epoch(now_)
        /\ Epoch(now_) <= Epoch(end_of_this_month)
        /\ WallSeconds(ts[end_of_this_month], NextMonth(ts[now_])) = 1

\* C13 witness: the anchors of a now on the 29th of February
C13_Witness ==
    /\ Populated
    /\ ts[now_].month = 2 /\ ts[now_].day = 29
    /\ ts[end_of_this_month].day = 29

\* C14: end_of_this_week - start_of_this_week is 6 days + 59 minutes + 59
\* seconds = 521999 seconds for every now.
C14_WeekSpanConstant ==
    Populated =>
        /\ Epoch(end_of_this_week) - Epoch(start_of_this_week) = 521999
        /\ WallSeconds(ts[start_of_this_week], ts[end_of_this_week])
              = 6 * 86400 + 59 * 60 + 59

\* C14 witness: the anchors of a now on a Saturday at 23:59:59
C14_Witness ==
    /\ Populated
    /\ DayNumber(ts[now_]) = 5 /\ SecondOfDay(ts[now_]) = 86399
    /\ DayNumber(ts[end_of_this_week]) = 6

\* C19: start_of_this_week <= now <= end_of_this_week, and the range returned
\* for 'range= start_of_this_week to end_of_this_week' covers now.
C19_WeekCoversNow ==
    /\ Populated =>
          /\ Epoch(start_of_this_week) <= Epoch(now_)
          /\ Epoch(now_) <= Epoch(end_of_this_week)
    /\ (Returned /\ shape.b1 = Bare(start_of_this_week) /\ shape.b2 = Bare(end_of_this_week))
          => (ret.start.v <= Epoch(now_) /\ Epoch(now_) <= ret.end.v)

(***************************************************************************)
(* The same call under several wall clocks: kwargs holds a now or not, and *)
(* datetime.now() returns one of several instants.                         *)
(***************************************************************************)

\* what datetime.now() may return: a Sunday morning, the noon of the tests'
\* day, a Sunday afternoon
WallClocks == {Clock, TestNow, datetime(2022, 4, 10, 12, 30, 0)}

InitClocks ==
    /\ shape \in AnchorShapes
    /\ kwargs \in {WithNow(TestNow), WithoutNow}
    /\ clock \in WallClocks
    /\ query = QueryText(shape)
    /\ pc = "populate"
    /\ ts = <<>>
    /\ query_content = <<>>
    /\ query_range = NoRange
    /\ stdout = <<>>
    /\ ret = <<>>
    /\ db = NoTable
    /\ last = NoCommand

SpecClocks == InitClocks /\ [][Next]_vars

\* C15: the result of a call is a function of (query, now): whatever the wall
\* clock is at the call, the call ends the same way with the same range, on
\* every path into the resolver (with now in kwargs or, as parse_filter calls
\* it, without).
C15_Deterministic ==
    Ended => \A c \in WallClocks : Outcome = parse_timefilter(query, kwargs, c)

(***************************************************************************)
(* parse_timefilter of main.py, as a function of its inputs. eval sees the *)
(* module-level names of main.py.                                          *)
(***************************************************************************)

\* the names bound at module level of main.py
main_GlobalNames ==
    (GlobalNames \ {<<"B","I","N","_","D","I","R">>, <<"D","B","_","P","A","T","H">>, <<"T","M","P","_","D","I","R">>,
                    <<"d","e","l","e","t","e","_","l","o","g">>,
                    <<"p","a","r","s","e","_","r","e","g","e","x","f","i","l","t","e","r">>,
                    <<"s","i","m","p","l","e","_","n","o","t","e">>})
    \cup {<<"D","E","F","A","U","L","T","_","F","I","L","T","E","R">>, <<"m","a","i","n">>}

\* those of them that a def binds to a function
main_FunctionNames ==
    (FunctionNames \ {<<"d","e","l","e","t","e","_","l","o","g">>,
                      <<"p","a","r","s","e","_","r","e","g","e","x","f","i","l","t","e","r">>,
                      <<"s","i","m","p","l","e","_","n","o","t","e">>})
    \cup {<<"m","a","i","n">>}

main_ScopeNames == LocalNames \cup main_GlobalNames \cup BuiltinNames \cup Keywords

\* eval(s), called in parse_timefilter of main.py
main_eval(s) == EvalTokens(Tokenize(s, 1), main_ScopeNames, main_FunctionNames)

main_ins == << <<"s", 1>>, <<"m", 60>>, <<"h", 3600>>, <<"d", 86400>> >>

\* (mutation of main_timeset: the end of the week has its 23 hours)
main_timeset_week_23h(tnow) ==
    LET sot == datetime(tnow.year, tnow.month, tnow.day, 0, 0, 0)
        eot == plus_timedelta(sot, 0, 23, 59, 59)
        som == datetime(tnow.year, tnow.month, 1, 0, 0, 0)
        eom == plus_timedelta(som, monthrange(tnow.year, tnow.month) - 1, 23, 59, 59)
        sow == plus_timedelta(sot, 0 - weekday(eot), 0, 0, 0)
        eow == plus_timedelta(sow, 6, 23, 59, 59)
    IN  (start_of_today :> sot) @@ (end_of_today :> eot) @@ (start_of_this_month :> som)
        @@ (end_of_this_month :> eom) @@ (start_of_this_week :> sow)
        @@ (end_of_this_week :> eow) @@ (now_ :> tnow)

main_timeset(tnow) ==
    LET sot == datetime(tnow.year, tnow.month, tnow.day, 0, 0, 0)
        eot == plus_timedelta(sot, 0, 23, 59, 59)
        som == datetime(tnow.year, tnow.month, 1, 0, 0, 0)
        eom == plus_timedelta(som, monthrange(tnow.year, tnow.month) - 1, 23, 59, 59)
        sow == plus_timedelta(sot, 0 - weekday(eot), 0, 0, 0)
        eow == plus_timedelta(sow, 6, 0, 59, 59)
    IN  (start_of_today :> sot) @@ (end_of_today :> eot) @@ (start_of_this_month :> som)
        @@ (end_of_this_month :> eom) @@ (start_of_this_week :> sow)
        @@ (end_of_this_week :> eow) @@ (now_ :> tnow)

main_ResolveBase(text, tset) ==
    IF text \in DOMAIN tset THEN Step("ok", IntVal(timestamp(tset[text])), <<>>)
    ELSE IF isnumeric(text) THEN Step("KeyError", StrVal(text), <<>>)
    ELSE Step("ok", StrVal(text), <<MsgInvalidOperand>>)

RECURSIVE main_FirstInterval(_, _)
main_FirstInterval(text, n) ==
    IF n > Len(main_ins) THEN 0
    ELSE IF Contains(text, main_ins[n][1]) THEN n
    ELSE main_FirstInterval(text, n + 1)

main_ResolveTailWith(text, n) ==
    IF n = 0 THEN Step("ok", StrVal(text), <<>>)
    ELSE Evaluated(main_eval(replace(text, main_ins[n][1], <<"*", " ">> \o str(main_ins[n][2]))))

main_ResolveTail(text) == main_ResolveTailWith(text, main_FirstInterval(text, 1))

main_Combine(op0, operator, op1) ==
    IF op1.k = "obj" THEN Step("unmodelled", op1, <<>>)
    ELSE Evaluated(main_eval(join(<<PyStr(op0), operator, PyStr(op1)>>)))

main_ResolveOffset(b, operator, t) ==
    IF b.st # "ok" THEN b
    ELSE IF t.st # "ok" THEN Step(t.st, t.val, b.out \o t.out)
    ELSE [main_Combine(b.val, operator, t.val) EXCEPT !.out = b.out \o @]

main_ResolveBound(text, tset) ==
    IF text \in DOMAIN tset THEN Step("ok", IntVal(timestamp(tset[text])), <<>>)
    ELSE IF HasSign(text) THEN
        main_ResolveOffset(main_ResolveBase(strip(SearchBefore(text)), tset),
                           strip(SearchOp(text)),
                           main_ResolveTail(strip(SearchAfter(text))))
    ELSE Step("exit1", StrVal(text), <<MsgInvalidRange>>)

main_Resolved(r1, r2) ==
    IF r1.st # "ok" THEN [pc |-> r1.st, ret |-> <<>>]
    ELSE IF r2.st # "ok" THEN [pc |-> r2.st, ret |-> <<>>]
    ELSE IF IsInt(r1.val) /\ IsInt(r2.val)
    THEN [pc |-> "returned", ret |-> [start |-> r1.val, end |-> r2.val]]
    ELSE [pc |-> "exit1", ret |-> <<>>]

main_Unpacked(parts, tset) ==
    IF Len(parts) # 2 THEN [pc |-> "ValueError", ret |-> <<>>]
    ELSE main_Resolved(main_ResolveBound(strip(parts[1]), tset),
                       main_ResolveBound(strip(parts[2]), tset))

main_parse_timefilter(q, kw, clk) ==
    main_Unpacked(split(strip(ReSubRange(q, 1)), TO),
                  main_timeset(IF kw.has THEN kw.now ELSE clk))

created == <<"c", "r", "e", "a", "t", "e", "d">>

updated == <<"u", "p", "d", "a", "t", "e", "d">>

scheduled == <<"s", "c", "h", "e", "d", "u", "l", "e", "d">>

task == <<"t", "a", "s", "k">>

\* LOG_TEMP.keys()
LOG_TEMP ==
    {<<"i", "d">>, task, <<"p", "r", "i", "o", "r", "i", "t", "y">>, <<"s", "t", "a", "t", "u", "s">>,
     <<"i", "s", "s", "u", "e">>, created, updated, scheduled, <<"n", "o", "t", "e">>}

TIME_FIELD_KEYS == {created, updated, scheduled}

MsgSkipped == "Skipped, not a valid field to apply filter."

main_MsgNotValid == "is not a valid field to apply filter, apply default"

Parsed(st, filters, out) == [st |-> st, filters |-> filters, out |-> out]

\* the index of the first and of the last c in s, which holds one
FirstIndex(s, c) == CHOOSE i \in 1..Len(s) : s[i] = c /\ \A j \in 1..(i - 1) : s[j] # c

LastIndex(s, c) == CHOOSE i \in 1..Len(s) : s[i] = c /\ \A j \in (i + 1)..Len(s) : s[j] # c

\* t in s, for two strs
ContainsText(s, t) == \E i \in 1..Len(s) : StartsAt(s, i, t)

\* re.sub('\s*~\s*', '', query).strip(): the text between the tildes, each
\* piece without the spaces around it
RECURSIVE ConcatStripped(_)
ConcatStripped(parts) ==
    IF parts = <<>> THEN <<>> ELSE strip(Head(parts)) \o ConcatStripped(Tail(parts))

\* the pattern of the LIKE that parse_regexfilter returns
parse_regexfilter(query_) == ConcatStripped(split(query_, <<"~">>))

\* the condition of a range clause, r being what parse_timefilter led to: a
\* failure of parse_timefilter ends parse_filter the same way
RangeClause(col, r) ==
    IF r.pc = "returned"
    THEN Parsed("ok", <<[col |-> col, op |-> "BETWEEN", lo |-> r.ret.start.v,
                         hi |-> r.ret.end.v, pat |-> <<>>]>>, <<>>)
    ELSE Parsed(r.pc, <<>>, <<>>)

\* the body of `for section in sections` once the field and the query are cut
FieldClause(filter_field, filter_query, clk) ==
    IF Lower(filter_field) \notin LOG_TEMP THEN Parsed("ok", <<>>, <<MsgSkipped>>)
    ELSE IF ContainsText(filter_query, RANGE)
    THEN RangeClause(Lower(filter_field), parse_timefilter(filter_query, WithoutNow, clk))
    ELSE IF Contains(filter_query, "~")
    THEN Parsed("ok", <<[col |-> Lower(filter_field), op |-> "LIKE", lo |-> 0, hi |-> 0,
                         pat |-> parse_regexfilter(filter_query)]>>, <<>>)
    ELSE Parsed("ok", <<>>, <<>>)

\* re.search('.*(?=\:)', section) is the text before the last colon and
\* re.search('(?<=\:).*', section) the text after the first; without a colon
\* the search gives None and .group raises AttributeError
SectionClause(section, clk) ==
    IF ~Contains(section, ":") THEN Parsed("AttributeError", <<>>, <<>>)
    ELSE FieldClause(strip(Slice(section, 1, LastIndex(section, ":") - 1)),
                     strip(From(section, FirstIndex(section, ":") + 1)), clk)

AppendClause(acc, c) == Parsed(c.st, acc.filters \o c.filters, acc.out \o c.out)

RECURSIVE Sections(_, _, _)
Sections(sections, clk, acc) ==
    IF sections = <<>> \/ acc.st # "ok" THEN acc
    ELSE Sections(Tail(sections), clk, AppendClause(acc, SectionClause(Head(sections), clk)))

\* parse_filter(filter) of simple_note.py, called when the wall clock is clk
parse_filter(filter, clk) == Sections(split(filter, <<";">>), clk, Parsed("ok", <<>>, <<>>))

\* parse_filter(filter) of main.py: one clause; for an unknown field it prints
\* and returns None, for a known field without `range` it returns the filter
\* text as it is. st tells which: "ok" (a WHERE clause), "None" or "text".
main_FieldClause(filter_field, filter_query, clk) ==
    IF Lower(filter_field) \notin LOG_TEMP
    THEN [Parsed("ok", <<>>, <<main_MsgNotValid>>) EXCEPT !.st = "None"]
    ELSE IF ContainsText(filter_query, RANGE)
    THEN RangeClause(Lower(filter_field), main_parse_timefilter(filter_query, WithoutNow, clk))
    ELSE [Parsed("ok", <<>>, <<>>) EXCEPT !.st = "text"]

main_parse_filter(filter, clk) ==
    IF ~Contains(filter, ":") THEN Parsed("AttributeError", <<>>, <<>>)
    ELSE main_FieldClause(strip(Slice(filter, 1, LastIndex(filter, ":") - 1)),
                          strip(From(filter, FirstIndex(filter, ":") + 1)), clk)

(***************************************************************************)
(* The WORKLOG table and the commands of the two entry points. A row is    *)
(* [ID, TASK, PRIORITY, CREATED, UPDATED, SCHEDULED]; STATUS, ISSUE and    *)
(* NOTE are text columns handled as TASK is and are left out. The rows are *)
(* kept in insertion order, the order in which a SELECT without ORDER BY   *)
(* returns them. simple_note.py opens ../.simple_note.db and main.py opens *)
(* ./worklog.db: a behaviour follows one of the two files.                 *)
(***************************************************************************)

priority == <<"p", "r", "i", "o", "r", "i", "t", "y">>

\* the columns declared TINYINT or INT
IntColumns == TIME_FIELD_KEYS \cup {priority}

IntColumn(row, col) ==
    IF col = priority THEN row.PRIORITY
    ELSE IF col = created THEN row.CREATED
    ELSE IF col = updated THEN row.UPDATED
    ELSE row.SCHEDULED

\* text LIKE 'pat' for a pattern without wildcard: equality, whatever the
\* case of the ASCII letters
like(text, pat) == Lower(text) = Lower(pat)

\* the conditions whose evaluation by SQLite is modelled: BETWEEN on an
\* integer column, LIKE on TASK with a pattern without wildcard or quote
ModelledCondition(c) ==
    \/ c.op = "BETWEEN" /\ c.col \in IntColumns
    \/ /\ c.op = "LIKE" /\ c.col = task
       /\ ~Contains(c.pat, "%") /\ ~Contains(c.pat, "_") /\ ~Contains(c.pat, "'")

Satisfies(row, c) ==
    IF c.op = "BETWEEN"
    THEN c.lo <= IntColumn(row, c.col) /\ IntColumn(row, c.col) <= c.hi
    ELSE like(row.TASK, c.pat)

\* SELECT ... FROM WORKLOG WHERE c1 AND c2 ...
Select(rows, filters) ==
    SelectSeq(rows, LAMBDA row : \A i \in 1..Len(filters) : Satisfies(row, filters[i]))

MsgIncomplete == "incomplete input"

MsgSyntax == "syntax error"

MsgNoEntry == "no log entry found."

Result(st, rows, out) == [st |-> st, rows |-> rows, out |-> out]

\* get_log of simple_note.py on the rows of the table: parse_filter, then the
\* SELECT. A statement that is 'WHERE ' and nothing else is incomplete SQL:
\* sqlite3.Error is caught, printed, and the command exits with status 1.
get_log(rows, filter_parsed) ==
    IF filter_parsed.st # "ok" THEN Result(filter_parsed.st, <<>>, filter_parsed.out)
    ELSE IF filter_parsed.filters = <<>>
    THEN Result("exit1", <<>>, Append(filter_parsed.out, MsgIncomplete))
    ELSE IF \E i \in 1..Len(filter_parsed.filters) : ~ModelledCondition(filter_parsed.filters[i])
    THEN Result("unmodelled", <<>>, filter_parsed.out)
    ELSE Result("ok", Select(rows, filter_parsed.filters), filter_parsed.out)

\* get_log of main.py: 'FROM WORKLOG None' names the table None and selects
\* every row; the filter text after 'FROM WORKLOG' is a syntax error
main_get_log(rows, filter_parsed) ==
    IF filter_parsed.st = "None" THEN Result("ok", rows, filter_parsed.out)
    ELSE IF filter_parsed.st = "text"
    THEN Result("exit1", <<>>, Append(filter_parsed.out, MsgSyntax))
    ELSE IF filter_parsed.st # "ok" THEN Result(filter_parsed.st, <<>>, filter_parsed.out)
    ELSE IF ~ModelledCondition(filter_parsed.filters[1])
    THEN Result("unmodelled", <<>>, filter_parsed.out)
    ELSE Result("ok", Select(rows, filter_parsed.filters), filter_parsed.out)

\* display_log prints 'no log entry found.' for an empty result
display_log(r) ==
    IF r.st = "ok" /\ r.rows = <<>> THEN Result(r.st, r.rows, Append(r.out, MsgNoEntry)) ELSE r

\* the element of a set of one element. The({F(x) : x \in {e}}) is F(e),
\* with e evaluated once.
The(S) == CHOOSE x \in S : TRUE

\* two digits, zero padded: %m, %d, %H, %M and %S of strftime
Pad2(n) == IF n < 10 THEN <<"0">> \o str(n) ELSE str(n)

\* dt.strftime('%Y-%m-%d %H:%M:%S') for a year of four digits
Formatted(dt) ==
    str(dt.year) \o <<"-">> \o Pad2(dt.month) \o <<"-">> \o Pad2(dt.day) \o <<" ">>
    \o Pad2(dt.hour) \o <<":">> \o Pad2(dt.minute) \o <<":">> \o Pad2(dt.second)

strftime(dt) == The({Formatted(d) : d \in {dt}})

\* a directive of strptime matches one or two digits (%Y: four)
Digits(t, least, most) == isnumeric(t) /\ Len(t) >= least /\ Len(t) <= most

StrptimeFields(d, t) ==
    IF Len(d) = 3 /\ Len(t) = 3
       /\ Digits(d[1], 4, 4) /\ Digits(d[2], 1, 2) /\ Digits(d[3], 1, 2)
       /\ Digits(t[1], 1, 2) /\ Digits(t[2], 1, 2) /\ Digits(t[3], 1, 2)
    THEN datetime(DecValue(d[1], 0), DecValue(d[2], 0), DecValue(d[3], 0),
                  DecValue(t[1], 0), DecValue(t[2], 0), DecValue(t[3], 0))
    ELSE datetime(0, 0, 0, 0, 0, 0)

ValidDatetime(dt) ==
    /\ dt.year >= 1 /\ dt.month \in 1..12
    /\ dt.day >= 1 /\ dt.day <= monthrange(dt.year, dt.month)
    /\ dt.hour <= 23 /\ dt.minute <= 59 /\ dt.second <= 59

\* datetime.strptime(s, '%Y-%m-%d %H:%M:%S') for a text with single spaces:
\* ok is FALSE where strptime raises ValueError
StrptimeParts(parts) ==
    IF Len(parts) = 2
    THEN StrptimeFields(split(parts[1], <<"-">>), split(parts[2], <<":">>))
    ELSE datetime(0, 0, 0, 0, 0, 0)

strptime(s) ==
    The({[ok |-> ValidDatetime(dt), dt |-> dt] : dt \in {StrptimeParts(split(s, <<" ">>))}})

\* datetime.fromtimestamp(n) in the zone of the model
fromtimestamp(n) == fromordinal(EpochOrdinal + (n \div 86400), n % 86400)

\* 09:30:00 of the day of now
start_of_work_hour(now) == datetime(now.year, now.month, now.day, 9, 30, 0)

\* the largest number of rows of the table
MaxRecords == 1

\* str(uuid.uuid4())[:32]: u1, u2, ... stand for texts of 32 characters
Uuid(n) == <<"u">> \o str(n)

Uuids == {Uuid(n) : n \in 1..MaxRecords}

\* len(id) of the text an id stands for
IdLength(id) == IF id \in Uuids THEN 32 ELSE Len(id)

Ids(rows) == {rows[i].ID : i \in 1..Len(rows)}

MsgAdded(n) == IF n = 0 THEN "0 record(s) added to worklog." ELSE "1 record(s) added to worklog."

MsgSchedule == "Schedule to start of today"

MsgIdFormat == "Given log id {id} isn't the correct format"

MsgDeleted == "Successfully deleted log id"

Command(cmd, r) == [cmd |-> cmd, st |-> r.st, rows |-> r.rows, out |-> r.out]

\* the variables of the call machine of parse_timefilter
callVars == <<shape, query, kwargs, pc, ts, query_content, query_range, stdout, ret>>

\* the values the editor session of add_log leaves in the one entry of the
\* template: the task, and the text of `scheduled`
NoTask == <<>>

EditorTasks == {NoTask, <<"t", "1">>, <<"t", "2">>}

Tomorrow == <<"t", "o", "m", "o", "r", "r", "o", "w">>

EditorSchedules(template) ==
    {template, Tomorrow, <<"2", "0", "2", "2", "-", "4", "-", "8", " ", "1", "0", ":", "0", ":", "0">>}

\* entry['scheduled'] of add_log: the text of the editor, and 09:30:00 of
\* today where strptime raises
Scheduled(text, now) ==
    IF strptime(text).ok THEN timestamp(strptime(text).dt)
    ELSE timestamp(start_of_work_hour(now))

NewRow(id, task_, now, text) ==
    [ID |-> id, TASK |-> task_, PRIORITY |-> 0, CREATED |-> timestamp(now),
     UPDATED |-> timestamp(now), SCHEDULED |-> Scheduled(text, now)]

\* -a: add_log (the same in both files). The entry is kept when its task is
\* filled (its issue is empty); the editor session takes no time.
add_log(id, task_, text) ==
    /\ Len(db.rows) < MaxRecords
    /\ db' = [db EXCEPT !.rows =
                IF task_ = NoTask THEN @ ELSE Append(@, NewRow(id, task_, clock, text))]
    /\ last' = Command("add",
                 Result("ok", <<>>,
                        (IF task_ # NoTask /\ ~strptime(text).ok THEN <<MsgSchedule>> ELSE <<>>)
                        \o <<MsgAdded(IF task_ = NoTask THEN 0 ELSE 1)>>))
    /\ UNCHANGED clock
    /\ UNCHANGED callVars

AddLog ==
    \E id \in Uuids \ Ids(db.rows), task_ \in EditorTasks,
       text \in EditorSchedules(strftime(start_of_work_hour(clock))) :
        add_log(id, task_, text)

\* -d id of simple_note.py: delete_log
delete_log(id) ==
    /\ db.file = "simple_note"
    /\ IF IdLength(id) # 32
       THEN /\ last' = Command("delete", Result("exit1", <<>>, <<MsgIdFormat>>))
            /\ UNCHANGED db
       ELSE /\ db' = [db EXCEPT !.rows = SelectSeq(@, LAMBDA row : row.ID # id)]
            /\ last' = Command("delete", Result("ok", <<>>, <<MsgDeleted>>))
    /\ UNCHANGED clock
    /\ UNCHANGED callVars

DeleteLog == \E id \in Uuids \cup {<<"u">>} : delete_log(id)

\* the texts given to -f
Clause(field, q) == field \o <<":", " ">> \o q

RangeText(a, b) == QueryText(Plain(Bare(a), Bare(b)))

bogus == <<"b", "o", "g", "u", "s">>

\* no -f on the command line
NoFilter == <<>>

FilterTexts ==
    {Clause(bogus, <<"~", " ", "t", "1">>),
     Clause(bogus, <<"~", " ", "t", "1">>) \o <<";">> \o Clause(created, RangeText(start_of_today, now_)),
     Clause(created, RangeText(start_of_today, now_)),
     Clause(task, <<"~", " ", "T", "1">>),
     Clause(task, <<"t", "1">>),
     task}

Filters == {NoFilter} \cup FilterTexts

\* args.filter of simple_note(): 'scheduled: range= start_of_today to
\* end_of_today' when no filter is given and the output is not standup
DefaultFilter == Clause(scheduled, RangeText(start_of_today, end_of_today))

\* the filter of `-o standup` without -f: the last 4 days on a Monday, else
\* the last 2
StandupFilter(now) ==
    Clause(scheduled,
           QueryText(Plain(Offset(start_of_today, <<"-">>, 1, 1,
                                  IF weekday(now) = 0 THEN 3 ELSE 1, <<"d">>, <<>>),
                           Bare(now_))))

\* the default of -f of main.py: 'scheduled: range= start_of_today to now'
main_DefaultFilter == Clause(scheduled, RangeText(start_of_today, now_))

\* -l of simple_note.py, without -f
ListLog ==
    /\ db.file = "simple_note"
    /\ last' = Command("list", display_log(get_log(db.rows, parse_filter(DefaultFilter, clock))))
    /\ UNCHANGED <<db, clock>>
    /\ UNCHANGED callVars

\* -l -f filter of simple_note.py
ListFilter ==
    /\ db.file = "simple_note"
    /\ \E f \in FilterTexts :
        last' = Command("list -f", display_log(get_log(db.rows, parse_filter(f, clock))))
    /\ UNCHANGED <<db, clock>>
    /\ UNCHANGED callVars

\* -l -o standup of simple_note.py
ListStandup ==
    /\ db.file = "simple_note"
    /\ last' = Command("standup",
                 display_log(get_log(db.rows, parse_filter(StandupFilter(clock), clock))))
    /\ UNCHANGED <<db, clock>>
    /\ UNCHANGED callVars

\* -l of main.py, without -f
main_ListLog ==
    /\ db.file = "main"
    /\ last' = Command("list",
                 display_log(main_get_log(db.rows, main_parse_filter(main_DefaultFilter, clock))))
    /\ UNCHANGED <<db, clock>>
    /\ UNCHANGED callVars

\* -l -f filter of main.py
main_ListFilter ==
    /\ db.file = "main"
    /\ \E f \in FilterTexts :
        last' = Command("list -f", display_log(main_get_log(db.rows, main_parse_filter(f, clock))))
    /\ UNCHANGED <<db, clock>>
    /\ UNCHANGED callVars

\* the instants at which commands are run
Instants ==
    <<datetime(2022, 4, 7, 7, 0, 0), datetime(2022, 4, 7, 9, 30, 0),
      datetime(2022, 4, 7, 23, 59, 59), datetime(2022, 4, 8, 0, 0, 0)>>

\* time passes before the next command; the output of the last is gone
Tick ==
    /\ \E i \in 1..Len(Instants) :
        /\ timestamp(Instants[i]) > timestamp(clock)
        /\ clock' = Instants[i]
    /\ last' = NoCommand
    /\ UNCHANGED db
    /\ UNCHANGED callVars

(***************************************************************************)
(* edit_log builds its UPDATE statement by joining text: the values of the *)
(* editor are put into the statement as they are, text values between two *)
(* quotes and PRIORITY bare. SQLite then reads the statement; what is      *)
(* modelled of its grammar is                                              *)
(*    UPDATE WORKLOG SET col = value {, col = value} WHERE ID = 'text'     *)
(* with integer and quoted-text values.                                    *)
(***************************************************************************)

SqlTok(k, n, c) == [k |-> k, n |-> n, c |-> c]

RECURSIVE DigitsEnd(_, _)
DigitsEnd(s, i) == IF i <= Len(s) /\ IsDigit(s[i]) THEN DigitsEnd(s, i + 1) ELSE i

\* the index of the first quote at or after i, Len(s) + 1 when there is none
RECURSIVE QuoteAt(_, _)
QuoteAt(s, i) == IF i <= Len(s) /\ s[i] # "'" THEN QuoteAt(s, i + 1) ELSE i

\* a character after an odd number of quotes is inside a quoted text, or is
\* the quote that closes it
QuotesBefore(s, i) == Cardinality({j \in 1..(i - 1) : s[j] = "'"})

\* a token starts at s[i]: outside the quoted texts, at a quote, at a symbol,
\* or at the first character of a run of letters, digits and underscores
TokenStart(s, i) ==
    /\ ~IsSpace(s[i])
    /\ QuotesBefore(s, i) % 2 = 0
    /\ IsNameChar(s[i]) => (i = 1 \/ ~IsNameChar(s[i - 1]))

TokenStarts(s) == {i \in 1..Len(s) : TokenStart(s, i)}

\* the token [k, n, c] that starts at s[j]. An unclosed quote is no token of
\* SQL ("bad"); a doubled quote, digits followed by letters and the operators
\* are not modelled.
SqlTokenAt(s, j) ==
    IF IsDigit(s[j])
    THEN IF NameEnd(s, j) # DigitsEnd(s, j) THEN SqlTok("unmodelled", 0, <<>>)
         ELSE SqlTok("int", DecValue(Slice(s, j, DigitsEnd(s, j) - 1), 0), <<>>)
    ELSE IF IsNameStart(s[j]) THEN SqlTok("name", 0, Lower(Slice(s, j, NameEnd(s, j) - 1)))
    ELSE IF s[j] \in {",", "="} THEN SqlTok("sym", 0, <<s[j]>>)
    ELSE IF s[j] = "'"
    THEN IF QuoteAt(s, j + 1) > Len(s) THEN SqlTok("bad", 0, <<>>)
         ELSE IF QuoteAt(s, j + 1) < Len(s) /\ s[QuoteAt(s, j + 1) + 1] = "'"
         THEN SqlTok("unmodelled", 0, <<>>)
         ELSE SqlTok("str", 0, Slice(s, j + 1, QuoteAt(s, j + 1) - 1))
    ELSE SqlTok("unmodelled", 0, <<>>)

\* the k-th smallest element of a set of numbers
Kth(S, k) == CHOOSE x \in S : Cardinality({y \in S : y < x}) = k - 1

\* the tokens of the statement, in the order of the text
TokensAt(s, starts) == [k \in 1..Cardinality(starts) |-> SqlTokenAt(s, Kth(starts, k))]

SqlTokens(s) == The({TokensAt(s, starts) : starts \in {TokenStarts(s)}})

IsName(t, w) == t.k = "name" /\ t.c = w

IsSym(t, c) == t.k = "sym" /\ t.c = <<c>>

id_ == <<"i", "d">>

\* the columns of the modelled row
RowColumns == {id_, task, priority, created, updated, scheduled}

\* a parsed statement: st is "ok", "error" (sqlite3.Error) or "unmodelled";
\* sets the assignments [col, val] in the order written; id the text of the
\* WHERE clause
Statement(st, sets, id) == [st |-> st, sets |-> sets, id |-> id]

\* the value of an assignment is modelled when it has the type of its column
TypedValue(col, val) ==
    IF col \in IntColumns THEN val.k = "int" ELSE val.k = "str"

\* WHERE ID = 'text' and nothing after, WHERE being the token i
SqlWhere(toks, i, sets) ==
    IF Len(toks) = i + 3 /\ IsName(toks[i + 1], id_) /\ IsSym(toks[i + 2], "=")
       /\ toks[i + 3].k = "str"
    THEN Statement("ok", sets, toks[i + 3].c)
    ELSE Statement("unmodelled", sets, <<>>)

\* from the token i on: col = value, then a comma and the next assignment,
\* or WHERE
RECURSIVE SqlSet(_, _, _)
SqlSet(toks, i, sets) ==
    IF Len(toks) < i + 3 \/ toks[i].k # "name" \/ ~IsSym(toks[i + 1], "=")
       \/ toks[i + 2].k \notin {"int", "str"}
    THEN Statement("error", sets, <<>>)
    ELSE IF toks[i].c \notin LOG_TEMP THEN Statement("error", sets, <<>>)
    ELSE IF toks[i].c \notin RowColumns \/ ~TypedValue(toks[i].c, toks[i + 2])
    THEN Statement("unmodelled", sets, <<>>)
    ELSE IF IsSym(toks[i + 3], ",")
    THEN SqlSet(toks, i + 4, Append(sets, [col |-> toks[i].c, val |-> toks[i + 2]]))
    ELSE IF IsName(toks[i + 3], <<"w", "h", "e", "r", "e">>)
    THEN SqlWhere(toks, i + 3, Append(sets, [col |-> toks[i].c, val |-> toks[i + 2]]))
    ELSE IF toks[i + 3].k \in {"name", "int", "str"}
    THEN Statement("error", sets, <<>>)
    ELSE Statement("unmodelled", sets, <<>>)

\* UPDATE WORKLOG SET ...
SqlStatement(toks) ==
    IF \E i \in 1..Len(toks) : toks[i].k = "unmodelled"
    THEN Statement("unmodelled", <<>>, <<>>)
    ELSE IF \E i \in 1..Len(toks) : toks[i].k = "bad"
    THEN Statement("error", <<>>, <<>>)
    ELSE IF Len(toks) >= 3 /\ IsName(toks[1], <<"u", "p", "d", "a", "t", "e">>)
            /\ IsName(toks[2], <<"w", "o", "r", "k", "l", "o", "g">>)
            /\ IsName(toks[3], <<"s", "e", "t">>)
    THEN SqlSet(toks, 4, <<>>)
    ELSE Statement("unmodelled", <<>>, <<>>)

\* the statement SQLite reads in the text sql
SqlUpdate(sql) ==
    The({The({SqlStatement(toks) : toks \in {SqlTokens(text)}}) : text \in {sql}})

\* one assignment made on a row
Assigned(row, a) ==
    IF a.col = id_ THEN [row EXCEPT !.ID = a.val.c]
    ELSE IF a.col = task THEN [row EXCEPT !.TASK = a.val.c]
    ELSE IF a.col = priority THEN [row EXCEPT !.PRIORITY = a.val.n]
    ELSE IF a.col = created THEN [row EXCEPT !.CREATED = a.val.n]
    ELSE IF a.col = updated THEN [row EXCEPT !.UPDATED = a.val.n]
    ELSE [row EXCEPT !.SCHEDULED = a.val.n]

\* the assignments are made in the order written: of two assignments to one
\* column the last is kept
RECURSIVE AssignedAll(_, _)
AssignedAll(row, sets) ==
    IF sets = <<>> THEN row ELSE AssignedAll(Assigned(row, Head(sets)), Tail(sets))

\* cur.execute(sql_update) on the rows of the table
Execute(rows, stmt) ==
    [i \in 1..Len(rows) |-> IF rows[i].ID = stmt.id THEN AssignedAll(rows[i], stmt.sets) ELSE rows[i]]

\* a value loaded from the YAML of the editor, as the f-string writes it:
\* an int, or a str
YamlInt(n) == [int |-> TRUE, text |-> str(n)]

YamlStr(c) == [int |-> FALSE, text |-> c]

\* editable_content of a row: READ_ONLY_KEYS but the id are left out, and
\* SCHEDULED is shown as fromtimestamp(...).strftime(...)
EditableContent(row) ==
    [ID |-> row.ID, TASK |-> row.TASK, PRIORITY |-> YamlInt(row.PRIORITY),
     SCHEDULED |-> strftime(fromtimestamp(row.SCHEDULED))]

edit_entries(result) == [i \in 1..Len(result) |-> EditableContent(result[i])]

\* ','.join(update_fields) for the modified entry, updated at `now`, when
\* strptime has read its SCHEDULED as the datetime when
UpdateFields(entry, now, when) ==
    <<" ", "U", "P", "D", "A", "T", "E", "D", " ", "=", " ">> \o str(timestamp(now))
    \o <<",", " ", "T", "A", "S", "K", " ", "=", " ", "'">> \o entry.TASK \o <<"'">>
    \o <<",", " ", "P", "R", "I", "O", "R", "I", "T", "Y", " ", "=", " ">> \o entry.PRIORITY.text
    \o <<",", " ", "S", "C", "H", "E", "D", "U", "L", "E", "D", " ", "=", " ">> \o str(timestamp(when))

sql_update(entry, now, when) ==
    <<"U", "P", "D", "A", "T", "E", " ", "W", "O", "R", "K", "L", "O", "G", " ", "S", "E", "T", " ">> \o UpdateFields(entry, now, when) \o <<" ", "W", "H", "E", "R", "E", " ", "I", "D", " ", "=", " ", "'">> \o entry.ID \o <<"'">>

MsgUpdated == "Updated"

MsgSqlError == "sqlite3.Error"

\* the body of `for entry in modified_entries`: strptime raises ValueError on
\* a SCHEDULED that is no date, which ends the command; a statement SQLite
\* refuses is printed and the loop goes on
Executed(acc, stmt) ==
    IF stmt.st = "unmodelled" THEN Result("unmodelled", acc.rows, acc.out)
    ELSE IF stmt.st = "error" THEN Result("ok", acc.rows, Append(acc.out, MsgSqlError))
    ELSE Result("ok", Execute(acc.rows, stmt), Append(acc.out, MsgUpdated))

UpdateParsed(acc, entry, now, parsed) ==
    IF ~parsed.ok THEN Result("ValueError", acc.rows, acc.out)
    ELSE The({Executed(acc, stmt) : stmt \in {SqlUpdate(sql_update(entry, now, parsed.dt))}})

UpdateEntry(acc, entry, now) ==
    The({UpdateParsed(acc, entry, now, parsed) : parsed \in {strptime(entry.SCHEDULED)}})

\* the loops over update_entries: the entry at idx is modified when it
\* differs from edit_entries[idx] and has its ID
RECURSIVE UpdateEntries(_, _, _, _, _)
UpdateEntries(acc, shown, update_entries, idx, now) ==
    IF idx > Len(update_entries) \/ acc.st # "ok" THEN acc
    ELSE IF update_entries[idx] # shown[idx] /\ update_entries[idx].ID = shown[idx].ID
    THEN The({UpdateEntries(a, shown, update_entries, idx + 1, now) :
                a \in {UpdateEntry(acc, update_entries[idx], now)}})
    ELSE UpdateEntries(acc, shown, update_entries, idx + 1, now)

\* what the user may make of one entry in the editor
Spliced == <<"0", ",", " ", "C", "R", "E", "A", "T", "E", "D", " ", "=", " ", "2", "0", "0", "0", "0", "0", "0", "0", "0", "0">>

OtherDay == <<"2", "0", "2", "2", "-", "0", "4", "-", "0", "9", " ", "0", "9", ":", "3", "0", ":", "0", "0">>

Edits(e) ==
    {e,
     [e EXCEPT !.TASK = <<"t", "2">>],
     [e EXCEPT !.TASK = <<"d", "o", "n", "'", "t">>],
     [e EXCEPT !.ID = Uuid(0)],
     [e EXCEPT !.ID = Uuid(0), !.TASK = <<"t", "2">>],
     [e EXCEPT !.PRIORITY = YamlInt(1)],
     [e EXCEPT !.PRIORITY = YamlStr(Spliced)],
     [e EXCEPT !.SCHEDULED = Tomorrow],
     [e EXCEPT !.SCHEDULED = OtherDay]}

\* the editor sessions: one entry is edited, or the task of every entry
EditSessions(shown) ==
    UNION {{[shown EXCEPT ![i] = e] : e \in Edits(shown[i])} : i \in 1..Len(shown)}
    \cup {[i \in 1..Len(shown) |-> [shown[i] EXCEPT !.TASK = <<"t", "2">>]]}

\* -e [-f filter] of simple_note.py: edit_log
edit_log(result, shown, update_entries) ==
    IF result.st # "ok" THEN UNCHANGED db /\ last' = Command("edit", result)
    ELSE IF result.rows = <<>>
    THEN UNCHANGED db /\ last' = Command("edit", Result("ok", <<>>, Append(result.out, MsgNoEntry)))
    ELSE \E r \in {UpdateEntries(Result("ok", db.rows, result.out), shown, update_entries, 1, clock)} :
            /\ db' = [db EXCEPT !.rows = r.rows]
            /\ last' = Command("edit", [r EXCEPT !.rows = <<>>])

EditLog ==
    /\ db.file = "simple_note"
    /\ \E f \in Filters :
        \E result \in {get_log(db.rows, parse_filter(IF f = NoFilter THEN DefaultFilter ELSE f, clock))} :
            \E shown \in {edit_entries(result.rows)} :
                \E update_entries \in EditSessions(shown) :
                    edit_log(result, shown, update_entries)
    /\ UNCHANGED clock
    /\ UNCHANGED callVars

\* The commands of one database file, run one after the other while time
\* passes: the file of simple_note.py or the file of main.py, with an empty
\* table. No call of parse_timefilter is open between two commands.
InitApp ==
    /\ db \in {[file |-> f, rows |-> <<>>] : f \in {"simple_note", "main"}}
    /\ last = NoCommand
    /\ clock = Instants[1]
    /\ shape = <<>>
    /\ query = <<>>
    /\ kwargs = WithoutNow
    /\ pc = "idle"
    /\ ts = <<>>
    /\ query_content = <<>>
    /\ query_range = NoRange
    /\ stdout = <<>>
    /\ ret = <<>>

NextApp ==
    \/ Tick
    \/ AddLog
    \/ DeleteLog
    \/ ListLog
    \/ ListFilter
    \/ ListStandup
    \/ EditLog
    \/ main_ListLog
    \/ main_ListFilter

SpecApp == InitApp /\ [][NextApp]_vars

\* every command stays inside what is modelled of SQLite
AppInFragment == last.st # "unmodelled"

\* the command just run skipped a clause with an unknown field
SkippedField == \E i \in 1..Len(last.out) : last.out[i] \in {MsgSkipped, main_MsgNotValid}

\* C16: a clause whose field is not a record field is skipped with a warning
\* and is never fatal: a list or edit command that skipped such a clause still
\* runs its query to completion instead of exiting with an error.
C16_UnknownFieldNeverFatal ==
    (last.cmd \in {"list -f", "edit"} /\ SkippedField) => last.st = "ok"

\* the rows whose SCHEDULED time lies within the day of the instant now
ScheduledToday(rows, now) ==
    SelectSeq(rows, LAMBDA row : SameDay(fromtimestamp(row.SCHEDULED), now))

\* C17: a list without a filter, from either entry point, lists exactly the
\* entries whose SCHEDULED time lies within today at the time of listing.
C17_DefaultListIsToday ==
    last.cmd = "list" => (last.st = "ok" /\ last.rows = ScheduledToday(db.rows, clock))

\* C20: after any sequence of add, edit and delete operations every stored
\* record satisfies CREATED <= UPDATED.
C20_CreatedBeforeUpdated ==
    \A i \in 1..Len(db.rows) : db.rows[i].CREATED <= db.rows[i].UPDATED

====
